---- MODULE Spec2Model ----
(***************************************************************************)
(* Ingest pipeline of the document archive: the IngestJob state machine    *)
(* (backend/app/services/ingest_service.py), its retry / dead-letter task  *)
(* wrapper (backend/app/worker/tasks_ingest.py), the HTTP handlers that    *)
(* create and requeue jobs (backend/app/api/v1/routes_ingest.py,           *)
(* routes_admin_logs.py) and delete_document (routes_documents.py).        *)
(*                                                                         *)
(* Granularity: one action per database commit (or per external effect:    *)
(* blob write, task enqueue).  The reads a handler makes before a commit   *)
(* are taken together with that commit; ORM objects are expired at every   *)
(* commit, so a handler re-reads the job row after each of its commits.    *)
(* The database is assumed available: the only commit failures modelled    *)
(* are constraint violations (unique index, foreign key).                  *)
(***************************************************************************)
EXTENDS Integers, Sequences, FiniteSets, Bags, TLC

\* ---------------------------------------------------------------- bounds
MaxReqs == 2      \* upload requests (each accepted one creates a job)
MaxFaults == 1    \* transient environment faults (blob store, callback, ...)
MaxOps == 1       \* operator / producer interventions and task re-deliveries
MaxEdits == 2                    \* catalog edit requests
MaxVersions == 2                 \* rule versions per ruleset
MaxRuleOps == 4                  \* rules administration requests
MaxTtl == 2                      \* ttl_seconds of an issued token
MaxTick == 7                     \* instants of issue and verification, in ticks
MaxActions == 2
MaxInputs == 3    \* external inputs of one behaviour: requests + faults + interventions
MaxBackfills == 1          \* backfill runs
MaxReruns == 2             \* backfill runs of the repeated-run scenario
MaxBatchSize == 2          \* batch_size of a backfill run
MaxAttemptCount == 6             \* attempt_count given to compute_backoff_seconds
MaxBaseSeconds == 4              \* base_seconds given to compute_backoff_seconds
MaxMaxSeconds == 8               \* max_seconds given to compute_backoff_seconds

\* ------------------------------------------------------ program constants
DefaultMaxAttempts == 5          \* IngestJob.max_attempts column default
RetryBaseSeconds == 30           \* settings.ingest_retry_base_seconds
RetryMaxSeconds == 1800          \* settings.ingest_retry_max_seconds
ActionTtlSeconds == 86400        \* settings.openclaw_action_ttl_seconds

NULL == -1                       \* SQL NULL of an integer / timestamp column
NoCode == "NULL"                 \* SQL NULL of a string column

Reqs == 1..MaxReqs
JobIds == Reqs                   \* the job created by request r has id r
Workers == {1}                   \* one worker process (celery concurrency 1)
WorkerPair == {1, 2}             \* two worker processes
Sources == {"telegram", "manual"}
Refs == {1, 2}                   \* source_ref values "msg:1", "msg:2"
Contents == {"b1"}
EditContents == {"b1", "b2"}     \* payloads of the catalog file uploads
Uploads == {<<"b1">>, <<"b2">>, <<"b1", "b2">>, <<"b2", "b1">>}
ReviewStatus == {"NONE", "NEEDS_REVIEW", "RESOLVED"}
Rulesets == {1, 2}
SearchWorkers == {1, 2}
Admins == {1, 2}                 \* concurrent administrator requests

IngestState ==
    {"RECEIVED", "STORED", "EXTRACTED", "CLASSIFIED", "INDEXED",
     "PUBLISHED", "FAILED", "NEEDS_REVIEW"}

TerminalStates == {"FAILED", "PUBLISHED", "NEEDS_REVIEW"}

\* review reasons the rule engine can hand to the pipeline (None or some)
RuleReasons == {<<>>, <<"CLASSIFY_FAIL">>}

\* ------------------------------------------------------------- retry policy
Max(a, b) == IF a >= b THEN a ELSE b
Min(a, b) == IF a <= b THEN a ELSE b

\* variant: the attempt limit compared inclusively
should_retry_inclusive(attempt_count, max_attempts) ==
    IF max_attempts <= 0 THEN FALSE ELSE attempt_count <= max_attempts

\* variant: a policy that never retries
should_retry_never(attempt_count, max_attempts) == FALSE

should_retry(attempt_count, max_attempts) ==
    IF max_attempts <= 0 THEN FALSE ELSE attempt_count < max_attempts

\* a backoff that grows by base_seconds per attempt
compute_backoff_linear(attempt_count, base_seconds, max_seconds) ==
    Min(Max(1, base_seconds) * Max(1, attempt_count), Max(Max(1, base_seconds), max_seconds))

compute_backoff_seconds(attempt_count, base_seconds, max_seconds) ==
    LET safe_attempt == Max(1, attempt_count)
        safe_base == Max(1, base_seconds)
        safe_max == Max(safe_base, max_seconds)
    IN  Min(safe_base * (2 ^ (safe_attempt - 1)), safe_max)

compute_retry_after(attempt_count, base_seconds, max_seconds, ref) ==
    ref + compute_backoff_seconds(attempt_count, base_seconds, max_seconds)

\* ------------------------------------------------------------------ rows
NoJob == [exists |-> FALSE]

NewJob(src, ref, path, t) ==
    [exists |-> TRUE, source |-> src, source_ref |-> ref, state |-> "RECEIVED",
     file_path_temp |-> path, document_id |-> NULL, attempt_count |-> 0,
     max_attempts |-> DefaultMaxAttempts, retry_after |-> NULL,
     last_error_code |-> NoCode, received_at |-> t, started_at |-> NULL,
     finished_at |-> NULL]

\* One IngestEvent row.  code / delay / retry_after / attempt / doc are the
\* payload entries the pipeline writes (NULL / NoCode when the event has none).
Event(from, to, type, code, delay, ra, attempt, doc) ==
    [from_state |-> from, to_state |-> to, event_type |-> type,
     error_code |-> code, delay_seconds |-> delay, retry_after |-> ra,
     attempt_count |-> attempt, document_id |-> doc]

PlainEvent(from, to, type) == Event(from, to, type, NoCode, NULL, NULL, NULL, NULL)

EventTypes ==
    {"STATE_TRANSITION", "ERROR", "WARNING", "RETRY_SCHEDULED", "DEAD_LETTER",
     "OPENCLAW_ACTION_RETRY", "OPENCLAW_ACTION_REPROCESS", "MANUAL_REQUEUE",
     "MANUAL_RECOVER_UPLOAD"}

\* The append-only ingest_events rows of one job, kept as: the most recent
\* row, the number of RETRY_SCHEDULED and of DEAD_LETTER rows, and the set of
\* to_state values that occur in the rows.
CountedTypes == {"RETRY_SCHEDULED", "DEAD_LETTER", "ERROR"}

NoEvents ==
    [last |-> PlainEvent("NULL", "NONE", "NONE"), count |-> [t \in CountedTypes |-> 0],
     tos |-> {}]

AppendEvent(log, e) ==
    [last |-> e,
     count |-> [t \in CountedTypes |-> IF t = e.event_type THEN log.count[t] + 1 ELSE log.count[t]],
     tos |-> log.tos \cup {e.to_state}]

HasEvents(log) == log.last.event_type # "NONE"

VARIABLES
    now,        \* wall clock (seconds)
    reqs,       \* upload requests: handler position, inputs, response
    jobs,       \* ingest_jobs rows
    events,     \* ingest_events rows per job
    audit,      \* audit_logs rows: bag of [action, target]
    docs,       \* documents rows (with their primary file link and version count)
    nextDoc,    \* next fresh document id
    files,      \* files rows, by checksum
    blobs,      \* objects in the blob backend, by checksum
    puts,       \* number of put calls the blob backend has completed
    temps,      \* existing temp files (path ids)
    tempBytes,  \* content of each temp path
    nextPath,   \* next fresh temp path id
    queue,      \* ingest task queue: bag of [job, eta]
    workers,    \* worker processes: position in process_ingest_job_task and locals
    op,         \* the operator handler that has committed but not yet enqueued
    tokens,     \* action tokens sent to the producer: job and expiry (both actions)
    faultsUsed, opsUsed,
    edit,       \* the catalog handler whose transaction is open (flushed, not committed)
    editsUsed,
    rulesets,     \* rulesets rows: current_version_id per ruleset
    ruleVersions, \* rule_versions rows
    admins,       \* the activate_rule_version requests in progress
    ruleOpsUsed,
    tokenCheck,   \* one issue_action_token call and one verify_action_token call on its result
    request,      \* the action endpoint request being answered, with its response status
    actionsUsed,  \* action endpoint requests received
    search_backend, \* settings.search_backend
    searchQueue,    \* tasks on the search queue: bag of [kind, doc]
    index,          \* document ids that have a record in the Meilisearch index
    searchWorkers,  \* worker processes of the search queue
    backfill,       \* the backfill run: position, rule version, counters
    ruleCall,       \* one call of apply_rules: its arguments and what it returned
    backoffCall,    \* one call of compute_backoff_seconds and the call for the next attempt
    classifyCall,   \* one call of classify_exception_for_stage
    taxonomy,       \* categories and tags rows, and the upsert calls in progress
    broker,         \* the Celery broker as the producers find it: "up" or "down"
    read_only_mode, \* settings.read_only_mode of the API process
    http,           \* one request seen by read_only_middleware and what became of it
    tagRows         \* tags rows: slug and name

\* the catalog editing handlers
catalogVars == <<edit, editsUsed>>

\* the classification rules administration
rulesVars == <<rulesets, ruleVersions, admins, ruleOpsUsed>>

\* the action token functions applied to drawn inputs
tokenVars == <<tokenCheck>>

\* the action endpoints called by the OpenClaw producer
requestVars == <<request, actionsUsed>>

\* the external search index, its setting and the workers that write it
indexVars == <<search_backend, index, searchWorkers>>

\* the search index and the tasks that synchronise it
searchVars == <<searchQueue, indexVars>>

\* the backfill task
backfillVars == <<backfill>>

\* the parts of the service added to the model after the catalog and the rules
\* the rule engine and the retry policy applied to drawn inputs
pureVars == <<ruleCall, backoffCall, classifyCall>>

\* the read-only switch of the API and a request passing its middleware
httpVars == <<read_only_mode, http>>

\* the tags table
tagVars == <<tagRows>>

\* the categories and tags tables under the upsert functions
taxonomyVars == <<taxonomy>>

\* the message broker
brokerVars == <<broker>>

moreVars == <<backfillVars, pureVars, httpVars, tagVars, taxonomyVars, brokerVars>>

\* the parts of the service that no ingest step touches
restVars == <<catalogVars, rulesVars, tokenVars, requestVars, moreVars>>

\* state of the parts of the service outside the ingest pipeline
extVars == <<restVars, searchVars>>

\* extVars without the tags table
untaggedVars ==
    <<searchVars, catalogVars, rulesVars, tokenVars, requestVars, backfillVars, pureVars, httpVars,
      taxonomyVars, brokerVars>>

vars == <<now, reqs, jobs, events, audit, docs, nextDoc, files, blobs, puts, temps,
          tempBytes, nextPath, queue, workers, op, tokens, faultsUsed, opsUsed, extVars>>


\* ------------------------------------------------------------------- Init
IdleWorker ==
    [pc |-> "idle", job |-> 0, start |-> "NONE", file |-> "none", dup |-> FALSE,
     reasons |-> <<>>, doc |-> NULL, code |-> NoCode, stage |-> "NONE",
     delay |-> NULL, trace |-> <<>>, link_pending |-> FALSE, tag_rows |-> {}]

NewReq == [pc |-> "new", source |-> "NONE", ref |-> NULL, path |-> 0, result |-> "none"]

NoOp == [kind |-> "none", job |-> 0]

NoTokenCheck == [stage |-> "idle"]

NoRequest == [status |-> 0]

NoRuleset == [exists |-> FALSE, current_version_id |-> NULL]
IdleAdmin == [pc |-> "idle", ruleset |-> NULL, version_no |-> NULL, rows |-> {}]

NoEdit == [kind |-> "none", doc |-> NULL, file |-> "none", new |-> "none", orphan |-> {}]

NoHttp == [stage |-> "idle"]

Callers == {"c1", "c2"}

IdleCall == [pc |-> "idle"]

NoTaxonomy == [rows |-> {}, calls |-> [c \in Callers |-> IdleCall]]

NoBackfill ==
    [pc |-> "idle", runs |-> 0, version_no |-> NULL, visited |-> {}, updated |-> 0,
     skipped |-> 0, updated_doc_ids |-> {}, written |-> {}, rule_out |-> NULL,
     filter |-> NULL, batch_size |-> 0, offset |-> 0, page |-> <<>>, failed |-> 0,
     at_start |-> {}, ruleset |-> NULL, applied |-> {}]

IdleSearch == [pc |-> "idle", doc |-> NULL, payloads |-> {}]

\* the state after construction, whatever the deployment's settings
\* the tables with the given rulesets, rule versions and audit rows
StartWith(rulesets0, ruleVersions0, audit0, ruleOps0) ==
    /\ now = 0
    /\ reqs = [r \in Reqs |-> NewReq]
    /\ jobs = [j \in JobIds |-> NoJob]
    /\ events = [j \in JobIds |-> NoEvents]
    /\ audit = audit0
    /\ docs = {}
    /\ nextDoc = 1
    /\ files = {}
    /\ blobs = {}
    /\ puts = 0
    /\ temps = {}
    /\ tempBytes = <<>>
    /\ nextPath = 1
    /\ queue = EmptyBag
    /\ workers = [w \in WorkerPair |-> IdleWorker]
    /\ op = NoOp
    /\ tokens = {}
    /\ faultsUsed = 0
    /\ opsUsed = 0
    /\ edit = NoEdit
    /\ editsUsed = 0
    /\ rulesets = rulesets0
    /\ ruleVersions = ruleVersions0
    /\ admins = [a \in Admins |-> IdleAdmin]
    /\ ruleOpsUsed = ruleOps0
    /\ tokenCheck = NoTokenCheck
    /\ request = NoRequest
    /\ actionsUsed = 0
    /\ searchQueue = EmptyBag
    /\ index = {}
    /\ searchWorkers = [w \in SearchWorkers |-> IdleSearch]
    /\ backfill = NoBackfill
    /\ ruleCall = [stage |-> "idle"]
    /\ backoffCall = [stage |-> "idle"]
    /\ classifyCall = [stage |-> "idle"]
    /\ read_only_mode = FALSE
    /\ http = NoHttp
    /\ tagRows = {}
    /\ taxonomy = NoTaxonomy
    /\ broker = "up"

\* the empty tables
Start == StartWith([rs \in Rulesets |-> NoRuleset], {}, EmptyBag, 0)

\* the default settings: search_backend "postgres"
Init == Start /\ search_backend = "postgres"

\* a deployment with SEARCH_BACKEND=meili
InitMeili == Start /\ search_backend = "meili"

\* external inputs so far: upload requests received, faults, interventions,
\* catalog edits, backfill runs
Inputs ==
    Cardinality({r \in Reqs : reqs[r].pc # "new"}) + faultsUsed + opsUsed + editsUsed + actionsUsed
    + backfill.runs

Task(j, eta) == [job |-> j, eta |-> eta]
Enqueue(q, j, eta) == q (+) SetToBag({Task(j, eta)})
AuditRow(action, target) == [action |-> action, target |-> target]
AddAudit(a, action, target) == a (+) SetToBag({AuditRow(action, target)})

\* ----------------------------------------------- upload handlers (enqueue)
\* _save_upload_temp: the handler writes the upload to a fresh temp path.
IngestUpload(r, src, ref, bytes) ==
    /\ reqs[r].pc = "new"
    /\ \A q \in Reqs : q < r => reqs[q].pc # "new"
    /\ Inputs < MaxInputs
    /\ reqs' = [reqs EXCEPT ![r] = [@ EXCEPT !.pc = "saved", !.source = src,
                                              !.ref = ref, !.path = nextPath]]
    /\ temps' = temps \cup {nextPath}
    /\ tempBytes' = Append(tempBytes, bytes)
    /\ nextPath' = nextPath + 1
    /\ UNCHANGED <<extVars, now, jobs, events, audit, docs, nextDoc, files, blobs, puts, queue,
                   workers, op, tokens, faultsUsed, opsUsed>>

\* variant: ingest_jobs without the unique index
NoJobRefIndex(js, src, ref) == FALSE

\* uq_ingest_jobs_source_ref_telegram: partial unique index on source_ref
\* where source = telegram.
TelegramRefTaken(js, src, ref) ==
    /\ src = "telegram"
    /\ \E j \in JobIds : js[j].exists /\ js[j].source = "telegram" /\ js[j].source_ref = ref

\* _queue_ingest_job, first commit: insert the job row, or on IntegrityError
\* roll back, remove the temp file and answer 409.
QueueInsert(r) ==
    /\ reqs[r].pc = "saved"
    /\ IF TelegramRefTaken(jobs, reqs[r].source, reqs[r].ref)
       THEN /\ temps' = temps \ {reqs[r].path}
            /\ reqs' = [reqs EXCEPT ![r] = [@ EXCEPT !.pc = "done", !.result = "409"]]
            /\ jobs' = jobs
       ELSE /\ jobs' = [jobs EXCEPT ![r] = NewJob(reqs[r].source, reqs[r].ref, reqs[r].path, now)]
            /\ reqs' = [reqs EXCEPT ![r] = [@ EXCEPT !.pc = "inserted"]]
            /\ temps' = temps
    /\ UNCHANGED <<extVars, now, events, audit, docs, nextDoc, files, blobs, puts, tempBytes, nextPath,
                   queue, workers, op, tokens, faultsUsed, opsUsed>>

\* _queue_ingest_job, second commit: the "job received" event.
QueueEvent(r) ==
    /\ reqs[r].pc = "inserted"
    /\ events' = [events EXCEPT ![r] = AppendEvent(@, PlainEvent("NULL", "RECEIVED", "STATE_TRANSITION"))]
    /\ reqs' = [reqs EXCEPT ![r] = [@ EXCEPT !.pc = "evented"]]
    /\ UNCHANGED <<extVars, now, jobs, audit, docs, nextDoc, files, blobs, puts, temps, tempBytes, nextPath,
                   queue, workers, op, tokens, faultsUsed, opsUsed>>

\* _queue_ingest_job: process_ingest_job_task.delay, then the 202 response.
QueueDelay(r) ==
    /\ reqs[r].pc = "evented"
    /\ broker = "up"
    /\ queue' = Enqueue(queue, r, now)
    /\ reqs' = [reqs EXCEPT ![r] = [@ EXCEPT !.pc = "done", !.result = "202"]]
    /\ UNCHANGED <<extVars, now, jobs, events, audit, docs, nextDoc, files, blobs, puts, temps, tempBytes,
                   nextPath, workers, op, tokens, faultsUsed, opsUsed>>


\* ------------------------------------------------- pipeline (one attempt)
\* _set_state: the job row after the transition.
SetStateJob(job, to_state, t) ==
    [job EXCEPT !.state = to_state,
                !.finished_at = IF to_state \in TerminalStates THEN t ELSE @]

\* process_ingest_job, lines 384-388: the attempt is counted.
BeginAttemptJob(job, t) ==
    [job EXCEPT !.started_at = t, !.attempt_count = @ + 1, !.retry_after = NULL]

\* variant: a classification that looks at the stage only
classify_stage_only(exc, stage) ==
    CASE stage = "STORED" -> "STORAGE_WRITE_FAIL"
      [] stage = "EXTRACTED" -> "CAPTION_PARSE_FAIL"
      [] stage = "CLASSIFIED" -> "RULE_CLASSIFY_FAIL"
      [] stage = "INDEXED" -> "DB_WRITE_FAIL"
      [] stage = "PUBLISHED" -> "NOTIFY_CALLBACK_FAIL"
      [] OTHER -> "PIPELINE_UNEXPECTED"

classify_exception_for_stage(exc, stage) ==
    CASE stage = "STORED" ->
            (IF exc = "FileNotFoundError" THEN "STORAGE_TEMP_FILE_MISSING"
             ELSE IF exc = "PermissionError" THEN "STORAGE_READ_FAIL"
             ELSE "STORAGE_WRITE_FAIL")
      [] stage = "EXTRACTED" -> "CAPTION_PARSE_FAIL"
      [] stage = "CLASSIFIED" -> "RULE_CLASSIFY_FAIL"
      [] stage = "INDEXED" -> "DB_WRITE_FAIL"
      [] stage = "PUBLISHED" -> "NOTIFY_CALLBACK_FAIL"
      [] OTHER -> "PIPELINE_UNEXPECTED"

\* find_by_checksum over the (empty) set of File rows: never a row
find_by_checksum_miss(fs, checksum) == "none"

\* find_by_checksum: the File row with this checksum_sha256, if any
find_by_checksum(fs, checksum) == IF checksum \in fs THEN checksum ELSE "none"

\* number of DocumentFile rows that link the File with this checksum
LinkedCount(ds, c) == Cardinality({d \in ds : \E l \in d.links : l.file = c})

DocIds(ds) == {d.id : d \in ds}
DocById(ds, id) == CHOOSE d \in ds : d.id = id

\* uq_documents_source_ref_telegram
TelegramDocRefTaken(ds, src, ref) ==
    /\ src = "telegram"
    /\ \E d \in ds : d.source = "telegram" /\ d.source_ref = ref

\* review_reasons of the attempt (process_ingest_job lines 466-468)
ReviewReasons(rule_reasons, duplicate_suspect) ==
    IF duplicate_suspect /\ \A i \in 1..Len(rule_reasons) : rule_reasons[i] # "DUPLICATE_SUSPECT"
    THEN Append(rule_reasons, "DUPLICATE_SUSPECT")
    ELSE rule_reasons

\* variant: the final state chosen without looking at the review reasons
FinalStateIgnoresReasons(review_reasons) == "PUBLISHED"

\* process_ingest_job lines 513-522
FinalState(review_reasons) ==
    IF review_reasons # <<>> THEN "NEEDS_REVIEW" ELSE "PUBLISHED"

\* build_result_actions: retry / reprocess tokens go out with the result
\* callback of a telegram job in FAILED or NEEDS_REVIEW.
IssuesTokens(job) ==
    job.source = "telegram" /\ job.state \in {"FAILED", "NEEDS_REVIEW"}

\* issue_action_token: exp = now + openclaw_action_ttl_seconds
IssuedToken(j, t) == [job |-> j, exp |-> t + ActionTtlSeconds]

Raise(w, code, stage) ==
    workers' = [workers EXCEPT ![w] = [@ EXCEPT !.pc = "fail_record", !.code = code, !.stage = stage]]

Goto(w, pc) == workers' = [workers EXCEPT ![w] = [@ EXCEPT !.pc = pc]]

\* The worker commits a state transition of its job.
Transition(w, to_state, type, code, doc) ==
    LET j == workers[w].job IN
    /\ jobs' = [jobs EXCEPT ![j] = SetStateJob(@, to_state, now)]
    /\ events' = [events EXCEPT ![j] =
                    AppendEvent(@, Event(jobs[j].state, to_state, type, code, NULL, NULL, NULL, doc))]

Fault == Inputs < MaxInputs /\ faultsUsed < MaxFaults /\ faultsUsed' = faultsUsed + 1
NoFault == faultsUsed' = faultsUsed

\* A worker takes a task once it is due (time has then reached its eta);
\* process_ingest_job loads the job and commits started_at / attempt_count /
\* retry_after.
BeginAttempt(w, task) ==
    /\ workers[w].pc = "idle"
    /\ BagIn(task, queue)
    /\ jobs[task.job].exists
    /\ now' = Max(now, task.eta)
    /\ queue' = queue (-) SetToBag({task})
    /\ jobs' = [jobs EXCEPT ![task.job] = BeginAttemptJob(@, now')]
    /\ workers' = [workers EXCEPT ![w] =
                     [IdleWorker EXCEPT !.pc = "store", !.job = task.job,
                                        !.start = jobs[task.job].state]]
    /\ UNCHANGED <<extVars, reqs, events, audit, docs, nextDoc, files, blobs, puts, temps, tempBytes,
                   nextPath, op, tokens, faultsUsed, opsUsed>>

\* _store_file up to the backend put: temp file check, checksum lookup, blob write.
StoreFile(w) ==
    LET j == workers[w].job
        path == jobs[j].file_path_temp
        c == tempBytes[path]
    IN
    /\ workers[w].pc = "store"
    /\ IF path \notin temps
       THEN /\ Raise(w, classify_exception_for_stage("FileNotFoundError", "STORED"), "STORED")
            /\ NoFault /\ blobs' = blobs /\ puts' = puts
       ELSE IF find_by_checksum(files, c) # "none"
       THEN /\ workers' = [workers EXCEPT ![w] =
                             [@ EXCEPT !.pc = "set_stored", !.file = c,
                                       !.dup = LinkedCount(docs, c) > 0]]
            /\ NoFault /\ blobs' = blobs /\ puts' = puts
       ELSE \/ /\ Fault
               /\ Raise(w, classify_exception_for_stage("OSError", "STORED"), "STORED")
               /\ blobs' = blobs /\ puts' = puts
            \/ /\ NoFault
               /\ blobs' = blobs \cup {c} /\ puts' = puts + 1
               /\ workers' = [workers EXCEPT ![w] = [@ EXCEPT !.pc = "file_insert", !.file = c]]
    /\ UNCHANGED <<extVars, now, reqs, jobs, events, audit, docs, nextDoc, files, temps, tempBytes,
                   nextPath, queue, op, tokens, opsUsed>>

\* _store_file: insert of the File row (checksum_sha256 is unique).
FileInsert(w) ==
    /\ workers[w].pc = "file_insert"
    /\ ~(edit.new = workers[w].file /\ edit.new \notin files)
    /\ IF workers[w].file \in files
       THEN /\ Raise(w, classify_exception_for_stage("IntegrityError", "STORED"), "STORED")
            /\ files' = files
       ELSE /\ files' = files \cup {workers[w].file}
            /\ workers' = [workers EXCEPT ![w] = [@ EXCEPT !.pc = "set_stored", !.dup = FALSE]]
    /\ UNCHANGED <<extVars, now, reqs, jobs, events, audit, docs, nextDoc, blobs, puts, temps, tempBytes,
                   nextPath, queue, op, tokens, faultsUsed, opsUsed>>

Traced(w, to_state, pc) ==
    workers' = [workers EXCEPT ![w] = [@ EXCEPT !.pc = pc, !.trace = Append(@, to_state)]]

SetStored(w) ==
    /\ workers[w].pc = "set_stored"
    /\ Transition(w, "STORED", "STATE_TRANSITION", NoCode, NULL)
    /\ Traced(w, "STORED", "extract")
    /\ UNCHANGED <<extVars, now, reqs, audit, docs, nextDoc, files, blobs, puts, temps, tempBytes,
                   nextPath, queue, op, tokens, faultsUsed, opsUsed>>

\* parse_caption and build_summary; a summary failure only leaves a WARNING
\* event (from_state = to_state = current state) before EXTRACTED is committed.
Extract(w) ==
    LET j == workers[w].job IN
    /\ workers[w].pc = "extract"
    /\ \/ /\ Fault
          /\ Raise(w, classify_exception_for_stage("ValueError", "EXTRACTED"), "EXTRACTED")
          /\ UNCHANGED <<jobs, events>>
       \/ /\ Fault
          /\ events' = [events EXCEPT ![j] =
                          AppendEvent(@, Event(jobs[j].state, jobs[j].state, "WARNING",
                                               "SUMMARY_EXTRACT_FAIL", NULL, NULL, NULL, NULL))]
          /\ Goto(w, "set_extracted")
          /\ jobs' = jobs
       \/ /\ NoFault
          /\ Transition(w, "EXTRACTED", "STATE_TRANSITION", NoCode, NULL)
          /\ Traced(w, "EXTRACTED", "classify")
    /\ UNCHANGED <<extVars, now, reqs, audit, docs, nextDoc, files, blobs, puts, temps, tempBytes,
                   nextPath, queue, op, tokens, opsUsed>>

SetExtracted(w) ==
    /\ workers[w].pc = "set_extracted"
    /\ Transition(w, "EXTRACTED", "STATE_TRANSITION", NoCode, NULL)
    /\ Traced(w, "EXTRACTED", "classify")
    /\ UNCHANGED <<extVars, now, reqs, audit, docs, nextDoc, files, blobs, puts, temps, tempBytes,
                   nextPath, queue, op, tokens, faultsUsed, opsUsed>>

\* apply_rules, the review reasons, _upsert_category, then CLASSIFIED.
Classify(w) ==
    /\ workers[w].pc = "classify"
    /\ \/ /\ Fault
          /\ Raise(w, classify_exception_for_stage("ValueError", "CLASSIFIED"), "CLASSIFIED")
          /\ UNCHANGED <<jobs, events>>
       \/ /\ NoFault
          /\ \E rr \in RuleReasons :
               workers' = [workers EXCEPT ![w] =
                             [@ EXCEPT !.pc = "doc_insert",
                                       !.reasons = ReviewReasons(rr, workers[w].dup),
                                       !.trace = Append(@, "CLASSIFIED")]]
          /\ Transition(w, "CLASSIFIED", "STATE_TRANSITION", NoCode, NULL)
    /\ UNCHANGED <<extVars, now, reqs, audit, docs, nextDoc, files, blobs, puts, temps, tempBytes,
                   nextPath, queue, op, tokens, opsUsed>>


DocLink(c, is_primary) == [file |-> c, is_primary |-> is_primary]

\* A documents row with its DocumentFile rows (links) and the version_no of
\* its DocumentVersion rows (versions); "job" is not a column: it records which job's attempt
\* inserted the row.
\* ------------------------------------------------------------------ strings
\* str.lower, str.strip and the slug functions on sequences of characters
Lower(c) == IF c = "F" THEN "f" ELSE c
lower(s) == [i \in 1..Len(s) |-> Lower(s[i])]

RECURSIVE lstrip(_)
lstrip(s) == IF s # <<>> /\ Head(s) = " " THEN lstrip(Tail(s)) ELSE s
RECURSIVE rstrip(_)
rstrip(s) == IF s # <<>> /\ s[Len(s)] = " " THEN rstrip(SubSeq(s, 1, Len(s) - 1)) ELSE s
strip(s) == rstrip(lstrip(s))

\* re.sub(r"\s+", " ", s)
RECURSIVE collapse(_)
collapse(s) ==
    IF Len(s) < 2 THEN s
    ELSE IF s[1] = " " /\ s[2] = " " THEN collapse(Tail(s))
    ELSE <<s[1]>> \o collapse(Tail(s))

\* rule_engine._normalize_tag_key
normalize_tag_key(value) == collapse(lower(strip(value)))

\* rule_categories._slugify; the slug of _upsert_tags is the same function
slugify(text) ==
    LET t == lower(strip(text)) IN [i \in 1..Len(t) |-> IF t[i] = " " THEN "-" ELSE t[i]]

\* rule_out.category, rule_out.event_date and rule_out.tags of the attempt:
\* one value stands for the outputs the rules give an upload.
IngestCategory == "general"
IngestEventDate == 1
IngestTags == {<<"f", "o">>}

NewDoc(id, j, job, review_reasons) ==
    [id |-> id, job |-> j, source |-> job.source, source_ref |-> job.source_ref,
     category |-> IngestCategory, event_date |-> IngestEventDate, tags |-> {},
     current_version_no |-> 1, versions |-> {}, links |-> {},
     review_status |-> IF review_reasons # <<>> THEN "NEEDS_REVIEW" ELSE "NONE",
     review_reasons |-> review_reasons]

\* slug of a tag name: normalize_slug, and its copy in ingest_service
TagSlug(name) == slugify(name)

\* a tags row
Tag(name) == [slug |-> TagSlug(name), name |-> name]

\* select(Tag).where(Tag.slug == slug)
HasSlug(rows, slug) == \E r \in rows : r.slug = slug

\* _create_document, first commit: insert of the Document row; the
\* DocumentFile row is then added to the session (pending).
DocInsert(w) ==
    LET j == workers[w].job IN
    /\ workers[w].pc = "doc_insert"
    /\ IF TelegramDocRefTaken(docs, jobs[j].source, jobs[j].source_ref)
       THEN /\ Raise(w, classify_exception_for_stage("IntegrityError", "INDEXED"), "INDEXED")
            /\ UNCHANGED <<docs, nextDoc>>
       ELSE /\ docs' = docs \cup {NewDoc(nextDoc, j, jobs[j], workers[w].reasons)}
            /\ nextDoc' = nextDoc + 1
            /\ workers' = [workers EXCEPT ![w] = [@ EXCEPT !.pc = "tag_select", !.doc = nextDoc,
                                                            !.link_pending = TRUE,
                                                            !.tag_rows = {}]]
    /\ UNCHANGED <<extVars, now, reqs, jobs, events, audit, files, blobs, puts, temps, tempBytes,
                   nextPath, queue, op, tokens, faultsUsed, opsUsed>>

\* the foreign keys of a DocumentFile row resolve and the row is new
LinkInsertable(ds, fs, d, c) ==
    /\ d \in DocIds(ds)
    /\ c \in fs
    /\ \A l \in DocById(ds, d).links : l.file # c

\* the rows that a select by slug finds for `names`, by their stored names
SelectTags(rows, names) == {r.name : r \in {x \in rows : \E name \in names : x.slug = TagSlug(name)}}

\* variant: a rollback that keeps the pending rows of the session
rollback_keeps_pending(pending) == pending

\* Session.rollback: rows added since the last commit leave the session
rollback(pending) == FALSE

\* _upsert_tags, the select by slug: an existing Tag row is taken, otherwise
\* a new Tag is added to the session.
TagSelect(w) ==
    /\ workers[w].pc = "tag_select"
    /\ IF \A name \in IngestTags : HasSlug(tagRows, TagSlug(name))
       THEN workers' = [workers EXCEPT ![w] = [@ EXCEPT !.pc = "doc_links",
                                                          !.tag_rows = SelectTags(tagRows, IngestTags)]]
       ELSE Goto(w, "tag_commit")
    /\ UNCHANGED <<extVars, now, reqs, jobs, events, audit, docs, nextDoc, files, blobs, puts, temps,
                   tempBytes, nextPath, queue, op, tokens, faultsUsed, opsUsed>>

\* _upsert_tags, db.commit() of the new Tag: the commit also writes the
\* pending DocumentFile row.  On IntegrityError (the slug was inserted in the
\* meantime, or the DocumentFile row cannot be inserted) the session is
\* rolled back and the Tag is selected again.
TagCommit(w) ==
    LET d == workers[w].doc IN
    /\ workers[w].pc = "tag_commit"
    /\ ~(edit.kind = "delete_document" /\ edit.doc = d)
    /\ IF /\ \A name \in IngestTags : ~HasSlug(tagRows, TagSlug(name))
          /\ LinkInsertable(docs, files, d, workers[w].file)
       THEN /\ tagRows' = tagRows \cup {Tag(name) : name \in IngestTags}
            /\ docs' = (docs \ {DocById(docs, d)}) \cup
                       {[DocById(docs, d) EXCEPT !.links = @ \cup {DocLink(workers[w].file, TRUE)}]}
            /\ workers' = [workers EXCEPT ![w] = [@ EXCEPT !.pc = "doc_links", !.link_pending = FALSE,
                                                            !.tag_rows = IngestTags]]
       ELSE /\ workers' = [workers EXCEPT ![w] =
                             [@ EXCEPT !.pc = "doc_links",
                                       !.link_pending = rollback(workers[w].link_pending),
                                       !.tag_rows = SelectTags(tagRows, IngestTags)]]
            /\ UNCHANGED <<tagRows, docs>>
    /\ UNCHANGED <<untaggedVars, now, reqs, jobs, events, audit, nextDoc, files, blobs, puts, temps,
                   tempBytes, nextPath, queue, op, tokens, faultsUsed, opsUsed>>

\* _create_document, last commit: the DocumentFile row if it is still
\* pending, the DocumentTag rows, version 1.  The foreign keys must resolve.
DocLinks(w) ==
    LET d == workers[w].doc IN
    /\ workers[w].pc = "doc_links"
    /\ ~(edit.kind = "delete_document" /\ edit.doc = d)
    /\ IF /\ d \in DocIds(docs)
          /\ workers[w].link_pending => LinkInsertable(docs, files, d, workers[w].file)
          /\ 1 \notin DocById(docs, d).versions
       THEN /\ docs' = (docs \ {DocById(docs, d)}) \cup
                       {[DocById(docs, d) EXCEPT
                           !.links = IF workers[w].link_pending
                                     THEN @ \cup {DocLink(workers[w].file, TRUE)} ELSE @,
                           !.tags = workers[w].tag_rows,
                           !.versions = @ \cup {1}]}
            /\ Goto(w, "set_doc_id")
       ELSE /\ Raise(w, classify_exception_for_stage("IntegrityError", "INDEXED"), "INDEXED")
            /\ docs' = docs
    /\ UNCHANGED <<extVars, now, reqs, jobs, events, audit, nextDoc, files, blobs, puts, temps, tempBytes,
                   nextPath, queue, op, tokens, faultsUsed, opsUsed>>

\* search_sync_service: a task is sent only with search_backend "meili"
\* (search_auto_sync is on by default).
is_sync_enabled == search_backend = "meili"

SearchTask(kind, d) == [kind |-> kind, doc |-> d]

\* variant: the task is never sent
delay_never(q, task) == q

\* task.delay(...) inside try/except Exception: with the broker down the
\* call raises, the exception is logged and nothing is sent
delay(q, task) == IF broker = "up" THEN q (+) SetToBag({task}) ELSE q

enqueue_document_index_sync(q, d) ==
    IF is_sync_enabled THEN delay(q, SearchTask("sync", d)) ELSE q

enqueue_document_index_delete(q, d) ==
    IF is_sync_enabled THEN delay(q, SearchTask("delete", d)) ELSE q

\* process_ingest_job lines 506-508: job.document_id = doc.id, commit.
SetDocumentId(w) ==
    LET j == workers[w].job IN
    /\ workers[w].pc = "set_doc_id"
    /\ IF workers[w].doc \in DocIds(docs)
       THEN /\ jobs' = [jobs EXCEPT ![j] = [@ EXCEPT !.document_id = workers[w].doc]]
            /\ Goto(w, "set_indexed")
       ELSE /\ Raise(w, "PIPELINE_UNEXPECTED", "PIPELINE")
            /\ jobs' = jobs
    /\ UNCHANGED <<extVars, now, reqs, events, audit, docs, nextDoc, files, blobs, puts, temps, tempBytes,
                   nextPath, queue, op, tokens, faultsUsed, opsUsed>>

SetIndexed(w) ==
    /\ workers[w].pc = "set_indexed"
    /\ IF workers[w].doc \in DocIds(docs)
       THEN /\ Transition(w, "INDEXED", "STATE_TRANSITION", NoCode, workers[w].doc)
            /\ Traced(w, "INDEXED", "set_final")
            /\ searchQueue' = enqueue_document_index_sync(searchQueue, workers[w].doc)
       ELSE /\ Raise(w, "PIPELINE_UNEXPECTED", "PIPELINE")
            /\ UNCHANGED <<jobs, events, searchQueue>>
    /\ UNCHANGED <<restVars, indexVars, now, reqs, audit, docs, nextDoc, files, blobs, puts, temps, tempBytes,
                   nextPath, queue, op, tokens, faultsUsed, opsUsed>>

SetFinal(w) ==
    /\ workers[w].pc = "set_final"
    /\ Transition(w, FinalState(workers[w].reasons), "STATE_TRANSITION", NoCode, NULL)
    /\ Traced(w, FinalState(workers[w].reasons), "notify")
    /\ UNCHANGED <<extVars, now, reqs, audit, docs, nextDoc, files, blobs, puts, temps, tempBytes,
                   nextPath, queue, op, tokens, faultsUsed, opsUsed>>

\* _notify_result on the success path; any exception of it (callback error,
\* the Document gone meanwhile) becomes NOTIFY_CALLBACK_FAIL.
Notify(w) ==
    LET j == workers[w].job IN
    /\ workers[w].pc = "notify"
    /\ tokens' = IF IssuesTokens(jobs[j]) /\ workers[w].doc \in DocIds(docs)
                 THEN tokens \cup {IssuedToken(j, now)} ELSE tokens
    /\ IF workers[w].doc \notin DocIds(docs)
       THEN Raise(w, "NOTIFY_CALLBACK_FAIL", "PUBLISHED") /\ NoFault
       ELSE \/ Fault /\ Raise(w, "NOTIFY_CALLBACK_FAIL", "PUBLISHED")
            \/ NoFault /\ workers' = [workers EXCEPT ![w] = IdleWorker]
    /\ UNCHANGED <<extVars, now, reqs, jobs, events, audit, docs, nextDoc, files, blobs, puts, temps,
                   tempBytes, nextPath, queue, op, opsUsed>>

\* _fail_job, first commit: last_error_code / last_error_message.
FailRecord(w) ==
    LET j == workers[w].job IN
    /\ workers[w].pc = "fail_record"
    /\ jobs' = [jobs EXCEPT ![j] = [@ EXCEPT !.last_error_code = workers[w].code]]
    /\ Goto(w, "fail_state")
    /\ UNCHANGED <<extVars, now, reqs, events, audit, docs, nextDoc, files, blobs, puts, temps, tempBytes,
                   nextPath, queue, op, tokens, faultsUsed, opsUsed>>

\* _fail_job: _set_state(FAILED) with the ERROR event, then the best-effort
\* failure callback, which reaches the producer or not.
FailStateWith(w, delivered) ==
    LET j == workers[w].job IN
    /\ workers[w].pc = "fail_state"
    /\ Transition(w, "FAILED", "ERROR", workers[w].code, NULL)
    /\ Traced(w, "FAILED", "after_fail")
    /\ tokens' = IF delivered /\ IssuesTokens(jobs'[j])
                 THEN tokens \cup {IssuedToken(j, now)} ELSE tokens
    /\ UNCHANGED <<extVars, now, reqs, audit, docs, nextDoc, files, blobs, puts, temps, tempBytes,
                   nextPath, queue, op, faultsUsed, opsUsed>>

\* _fail_job with the failure callback reaching the producer
FailState(w) == FailStateWith(w, TRUE)

\* _fail_job with the failure callback raising (swallowed by _fail_job)
FailStateUnnotified(w) == FailStateWith(w, FALSE)

\* variant: a retry that leaves finished_at of the failed attempt in place
ScheduleRetryKeepsFinished(job, t) ==
    [job EXCEPT !.state = "RECEIVED",
                !.retry_after = t + Min(RetryBaseSeconds * (2 ^ (Max(1, job.attempt_count) - 1)),
                                        RetryMaxSeconds),
                !.started_at = NULL]

\* _schedule_retry: the job row.
ScheduleRetryJob(job, t) ==
    [job EXCEPT !.state = "RECEIVED",
                !.retry_after = compute_retry_after(job.attempt_count, RetryBaseSeconds,
                                                    RetryMaxSeconds, t),
                !.started_at = NULL,
                !.finished_at = NULL]

\* _schedule_retry: the RETRY_SCHEDULED event.
RetryEvent(job, t) ==
    Event(job.state, "RECEIVED", "RETRY_SCHEDULED", NoCode,
          compute_backoff_seconds(job.attempt_count, RetryBaseSeconds, RetryMaxSeconds),
          compute_retry_after(job.attempt_count, RetryBaseSeconds, RetryMaxSeconds, t),
          job.attempt_count, NULL)

\* _move_to_dead_letter: the job row.
DeadLetterJob(job) ==
    [job EXCEPT !.state = "FAILED",
                !.retry_after = NULL,
                !.last_error_code =
                    IF @ = NoCode \/ @ = "INGEST_FAILED" THEN "DLQ_MAX_ATTEMPTS" ELSE @]

\* _move_to_dead_letter: the DEAD_LETTER event (payload: attempt_count and
\* the job's last_error_code after the assignment above).
DeadLetterEvent(job) ==
    Event(job.state, "FAILED", "DEAD_LETTER", DeadLetterJob(job).last_error_code,
          NULL, NULL, job.attempt_count, NULL)

\* process_ingest_job_task after a failed attempt: reload the job, then
\* either _schedule_retry or _move_to_dead_letter.
AfterFail(w) ==
    LET j == workers[w].job IN
    /\ workers[w].pc = "after_fail"
    /\ IF should_retry(jobs[j].attempt_count, jobs[j].max_attempts)
       THEN /\ jobs' = [jobs EXCEPT ![j] = ScheduleRetryJob(@, now)]
            /\ events' = [events EXCEPT ![j] = AppendEvent(@, RetryEvent(jobs[j], now))]
            /\ workers' = [workers EXCEPT ![w] =
                             [@ EXCEPT !.pc = "retry_enqueue",
                                       !.delay = compute_backoff_seconds(
                                           jobs[j].attempt_count, RetryBaseSeconds,
                                           RetryMaxSeconds)]]
            /\ audit' = audit
       ELSE /\ jobs' = [jobs EXCEPT ![j] = DeadLetterJob(@)]
            /\ events' = [events EXCEPT ![j] = AppendEvent(@, DeadLetterEvent(jobs[j]))]
            /\ audit' = AddAudit(audit, "INGEST_JOB_DEAD_LETTER", j)
            /\ workers' = [workers EXCEPT ![w] = IdleWorker]
    /\ UNCHANGED <<extVars, now, reqs, docs, nextDoc, files, blobs, puts, temps, tempBytes,
                   nextPath, queue, op, tokens, faultsUsed, opsUsed>>

\* self.retry(countdown = delay_seconds): the task goes back to the queue.
RetryEnqueue(w) ==
    /\ workers[w].pc = "retry_enqueue"
    /\ queue' = Enqueue(queue, workers[w].job, now + workers[w].delay)
    /\ workers' = [workers EXCEPT ![w] = IdleWorker]
    /\ UNCHANGED <<extVars, now, reqs, jobs, events, audit, docs, nextDoc, files, blobs, puts, temps,
                   tempBytes, nextPath, op, tokens, faultsUsed, opsUsed>>

\* ------------------------------------------------ environment and operators
\* interventions (action endpoint requests among them) within their budget
OpsLeft == Inputs < MaxInputs /\ opsUsed + actionsUsed < MaxOps
UseOp == OpsLeft /\ opsUsed' = opsUsed + 1

\* A temp file disappears (temp directory cleaned).
TempLost(p) ==
    /\ p \in temps
    /\ Fault
    /\ temps' = temps \ {p}
    /\ UNCHANGED <<extVars, now, reqs, jobs, events, audit, docs, nextDoc, files, blobs, puts, tempBytes,
                   nextPath, queue, workers, op, tokens, opsUsed>>

\* A worker process dies inside a task; with task_acks_late the broker
\* delivers the unacknowledged task again.
WorkerCrash(w) ==
    /\ workers[w].pc # "idle"
    /\ UseOp
    /\ queue' = Enqueue(queue, workers[w].job, now)
    /\ workers' = [workers EXCEPT ![w] = IdleWorker]
    /\ UNCHANGED <<extVars, now, reqs, jobs, events, audit, docs, nextDoc, files, blobs, puts, temps,
                   tempBytes, nextPath, op, tokens, faultsUsed>>

\* scripts/reprocess_job.py (or a duplicate delivery of a finished task):
\* the processing task is sent again for an existing job.
Redeliver(j) ==
    /\ jobs[j].exists
    /\ UseOp
    /\ queue' = Enqueue(queue, j, now)
    /\ UNCHANGED <<extVars, now, reqs, jobs, events, audit, docs, nextDoc, files, blobs, puts, temps,
                   tempBytes, nextPath, workers, op, tokens, faultsUsed>>

\* The job row after a requeue (action endpoint, admin requeue, recover-upload).
RequeueJob(job, reset_attempts, clear_error) ==
    [job EXCEPT !.state = "RECEIVED",
                !.retry_after = NULL,
                !.started_at = NULL,
                !.finished_at = NULL,
                !.attempt_count = IF reset_attempts THEN 0 ELSE @,
                !.last_error_code = IF clear_error THEN NoCode ELSE @]

MidStates == {"STORED", "EXTRACTED", "CLASSIFIED", "INDEXED"}

\* _requeue_job_with_action: 409 unless this holds.
ActionAllowed(job, force) ==
    /\ ~(job.state \in MidStates /\ ~force)
    /\ ~(job.state = "PUBLISHED" /\ ~force)

\* requeue_ingest_job: 409 unless this holds.
AdminRequeueAllowed(job, force) ==
    /\ ~(job.document_id # NULL /\ ~force)
    /\ ~(job.state \in ({"PUBLISHED"} \cup MidStates) /\ ~force)

ActionEventType(action) ==
    IF action = "retry" THEN "OPENCLAW_ACTION_RETRY" ELSE "OPENCLAW_ACTION_REPROCESS"

\* requeue_ingest_job (admin), up to the commit of the job row and its event.
AdminRequeue(j, reset_attempts, clear_error, force) ==
    /\ op = NoOp
    /\ jobs[j].exists
    /\ AdminRequeueAllowed(jobs[j], force)
    /\ UseOp
    /\ jobs' = [jobs EXCEPT ![j] = RequeueJob(@, reset_attempts, clear_error)]
    /\ events' = [events EXCEPT ![j] =
                    AppendEvent(@, PlainEvent(jobs[j].state, "RECEIVED", "MANUAL_REQUEUE"))]
    /\ op' = [kind |-> "INGEST_JOB_REQUEUE", job |-> j]
    /\ UNCHANGED <<extVars, now, reqs, audit, docs, nextDoc, files, blobs, puts, temps, tempBytes,
                   nextPath, queue, workers, tokens, faultsUsed>>

\* recover_ingest_job_with_upload, up to the commit: a new temp file replaces
\* file_path_temp and the job is requeued, whatever its state.
RecoverUpload(j, bytes, reset_attempts, clear_error) ==
    /\ op = NoOp
    /\ jobs[j].exists
    /\ UseOp
    /\ temps' = temps \cup {nextPath}
    /\ tempBytes' = Append(tempBytes, bytes)
    /\ nextPath' = nextPath + 1
    /\ jobs' = [jobs EXCEPT ![j] =
                  [RequeueJob(@, reset_attempts, clear_error) EXCEPT !.file_path_temp = nextPath]]
    /\ events' = [events EXCEPT ![j] =
                    AppendEvent(@, PlainEvent(jobs[j].state, "RECEIVED", "MANUAL_RECOVER_UPLOAD"))]
    /\ op' = [kind |-> "INGEST_JOB_RECOVER_UPLOAD", job |-> j]
    /\ UNCHANGED <<extVars, now, reqs, audit, docs, nextDoc, files, blobs, puts, queue, workers, tokens,
                   faultsUsed>>

\* The rest of a requeue handler: process_ingest_job_task.delay, then the
\* AuditLog row and the response.
OpEnqueue ==
    /\ op # NoOp
    /\ queue' = Enqueue(queue, op.job, now)
    /\ audit' = AddAudit(audit, op.kind, op.job)
    /\ op' = NoOp
    /\ request' = NoRequest
    /\ UNCHANGED <<moreVars, searchVars, catalogVars, rulesVars, tokenVars, actionsUsed, now, reqs, jobs, events, docs,
                   nextDoc, files, blobs, puts, temps, tempBytes, nextPath, workers, tokens,
                   faultsUsed, opsUsed>>

\* ---------------------------------------------------------- catalog edits
UseEdit == Inputs < MaxInputs /\ editsUsed < MaxEdits /\ editsUsed' = editsUsed + 1

ReplaceDoc(ds, d, e) == (ds \ {d}) \cup {e}

\* _append_document_version: current_version_no += 1 and a DocumentVersion
\* row with that number.
append_document_version(d) ==
    [d EXCEPT !.current_version_no = @ + 1, !.versions = @ \cup {d.current_version_no + 1}]

\* _cleanup_orphan_file up to _delete_stored_object: the Files among cs that
\* no DocumentFile row of ds references.
OrphanFiles(ds, cs) == {c \in cs : LinkedCount(ds, c) = 0}

\* delete_document up to the removal of the backend objects: the job
\* detach and the Document delete are flushed, each linked File is counted
\* and the backend object of every File left without a link is deleted.
DeleteDocument(d) ==
    /\ d \in docs
    /\ edit = NoEdit
    /\ UseOp
    /\ edit' = [NoEdit EXCEPT !.kind = "delete_document", !.doc = d.id,
                              !.orphan = OrphanFiles(docs \ {d}, {l.file : l \in d.links})]
    /\ blobs' = blobs \ edit'.orphan
    /\ UNCHANGED <<moreVars, searchVars, rulesVars, tokenVars, requestVars, now, reqs, jobs, events, audit, docs, nextDoc, files, puts, temps, tempBytes,
                   nextPath, queue, workers, op, tokens, faultsUsed, editsUsed>>

\* delete_document, delete_document_file, replace_document_file: the DELETE
\* of the orphan File rows and the commit.  A DocumentFile row committed in
\* the meantime makes the DELETE fail (file_id is ON DELETE RESTRICT) and
\* the transaction is rolled back; the backend objects stay deleted.
EditConflict ==
    LET d == DocById(docs, edit.doc)
        mine == IF edit.kind = "delete_document" THEN d.links
                ELSE {l \in d.links : l.file = edit.file}
        others == ReplaceDoc(docs, d, [d EXCEPT !.links = @ \ mine])
    IN  \E c \in edit.orphan : LinkedCount(others, c) > 0

DeleteDocumentCommit ==
    LET d == DocById(docs, edit.doc) IN
    /\ edit.kind = "delete_document"
    /\ edit' = NoEdit
    /\ IF EditConflict
       THEN UNCHANGED <<jobs, docs, files, audit, searchQueue>>
       ELSE /\ jobs' = [j \in JobIds |->
                          IF jobs[j].exists /\ jobs[j].document_id = d.id
                          THEN [jobs[j] EXCEPT !.document_id = NULL] ELSE jobs[j]]
            /\ docs' = docs \ {d}
            /\ files' = files \ edit.orphan
            /\ audit' = AddAudit(audit, "DOCUMENT_DELETE", d.id)
            /\ searchQueue' = enqueue_document_index_delete(searchQueue, d.id)
    /\ UNCHANGED <<moreVars, indexVars, rulesVars, tokenVars, requestVars, now, reqs, events, nextDoc, blobs, puts, temps, tempBytes, nextPath, queue,
                   workers, op, tokens, faultsUsed, opsUsed, editsUsed>>

\* delete_document_file up to the removal of the backend object.
DeleteDocumentFile(d, c) ==
    LET rest == [d EXCEPT !.links = {l \in @ : l.file # c}] IN
    /\ d \in docs
    /\ \E l \in d.links : l.file = c
    /\ edit = NoEdit
    /\ UseEdit
    /\ edit' = [NoEdit EXCEPT !.kind = "delete_file", !.doc = d.id, !.file = c,
                              !.orphan = OrphanFiles(ReplaceDoc(docs, d, rest), {c})]
    /\ blobs' = blobs \ edit'.orphan
    /\ UNCHANGED <<moreVars, searchVars, rulesVars, tokenVars, requestVars, now, reqs, jobs, events, audit, docs, nextDoc, files, puts, temps, tempBytes,
                   nextPath, queue, workers, op, tokens, faultsUsed, opsUsed>>

\* delete_document_file: the rest of the transaction (link delete, orphan
\* File delete, new version, AuditLog row) and its commit.
DeleteFileCommit ==
    LET d == DocById(docs, edit.doc)
        rest == [d EXCEPT !.links = {l \in @ : l.file # edit.file}]
    IN
    /\ edit.kind = "delete_file"
    /\ edit' = NoEdit
    /\ IF EditConflict
       THEN UNCHANGED <<docs, files, audit, searchQueue>>
       ELSE /\ docs' = ReplaceDoc(docs, d, append_document_version(rest))
            /\ files' = files \ edit.orphan
            /\ audit' = AddAudit(audit, "DOCUMENT_FILE_DELETE", d.id)
            /\ searchQueue' = enqueue_document_index_sync(searchQueue, d.id)
    /\ UNCHANGED <<moreVars, indexVars, rulesVars, tokenVars, requestVars, now, reqs, jobs, events, nextDoc, blobs, puts, temps, tempBytes, nextPath,
                   queue, workers, op, tokens, faultsUsed, opsUsed, editsUsed>>

\* replace_document_file lines 1328-1346: the link of file c either moves to
\* the new File or, when the document already links the new File, is deleted.
ReplacedLinks(links, c, new) ==
    IF \E l \in links : l.file = new
    THEN {l \in links : l.file # c}
    ELSE {IF l.file = c THEN DocLink(new, l.is_primary) ELSE l : l \in links}

\* replace_document_file up to the removal of the old backend object:
\* _store_uploaded_file writes the new object unless a File with its checksum
\* exists, and flushes the new File row.
ReplaceDocumentFile(d, c, bytes) ==
    LET after == [d EXCEPT !.links = ReplacedLinks(@, c, bytes)] IN
    /\ d \in docs
    /\ \E l \in d.links : l.file = c
    /\ edit = NoEdit
    /\ UseEdit
    /\ IF bytes = c
       THEN UNCHANGED <<edit, blobs, puts>>
       ELSE /\ edit' = [NoEdit EXCEPT !.kind = "replace_file", !.doc = d.id, !.file = c,
                                     !.new = bytes,
                                     !.orphan = OrphanFiles(ReplaceDoc(docs, d, after), {c})]
            /\ blobs' = (blobs \cup {bytes}) \ edit'.orphan
            /\ puts' = IF find_by_checksum(files, bytes) # "none" THEN puts ELSE puts + 1
    /\ UNCHANGED <<moreVars, searchVars, rulesVars, tokenVars, requestVars, now, reqs, jobs, events, audit, docs, nextDoc, files, temps, tempBytes,
                   nextPath, queue, workers, op, tokens, faultsUsed, opsUsed>>

\* replace_document_file: the rest of the transaction and its commit.
ReplaceFileCommit ==
    LET d == DocById(docs, edit.doc)
        after == [d EXCEPT !.links = ReplacedLinks(@, edit.file, edit.new)]
    IN
    /\ edit.kind = "replace_file"
    /\ edit' = NoEdit
    /\ IF EditConflict
       THEN UNCHANGED <<docs, files, audit, searchQueue>>
       ELSE /\ docs' = ReplaceDoc(docs, d, append_document_version(after))
            /\ files' = (files \cup {edit.new}) \ edit.orphan
            /\ audit' = AddAudit(audit, "DOCUMENT_FILE_REPLACE", d.id)
            /\ searchQueue' = enqueue_document_index_sync(searchQueue, d.id)
    /\ UNCHANGED <<moreVars, indexVars, rulesVars, tokenVars, requestVars, now, reqs, jobs, events, nextDoc, blobs, puts, temps, tempBytes, nextPath,
                   queue, workers, op, tokens, faultsUsed, opsUsed, editsUsed>>

\* add_document_files lines 1231-1262: each upload is stored and linked
\* unless the document already links its File; the first link of a document
\* without a primary link becomes primary.
RECURSIVE AddUploads(_, _)
AddUploads(links, ups) ==
    IF ups = <<>> THEN links
    ELSE IF \E l \in links : l.file = Head(ups)
    THEN AddUploads(links, Tail(ups))
    ELSE AddUploads(links \cup {DocLink(Head(ups), ~(\E l \in links : l.is_primary))},
                    Tail(ups))

Range(seq) == {seq[i] : i \in 1..Len(seq)}

\* add_document_files (one transaction; it commits only when a link was added)
AddDocumentFiles(d, ups) ==
    LET links == AddUploads(d.links, ups)
        fresh == {c \in Range(ups) : find_by_checksum(files, c) = "none"}
    IN
    /\ d \in docs
    /\ edit = NoEdit
    /\ UseEdit
    /\ IF links = d.links
       THEN UNCHANGED <<docs, files, blobs, puts, audit, searchQueue>>
       ELSE /\ docs' = ReplaceDoc(docs, d, append_document_version([d EXCEPT !.links = links]))
            /\ files' = files \cup fresh
            /\ blobs' = blobs \cup fresh
            /\ puts' = puts + Cardinality(fresh)
            /\ audit' = AddAudit(audit, "DOCUMENT_FILE_ADD", d.id)
            /\ searchQueue' = enqueue_document_index_sync(searchQueue, d.id)
    /\ UNCHANGED <<moreVars, indexVars, rulesVars, tokenVars, requestVars, now, reqs, jobs, events, nextDoc, temps, tempBytes, nextPath, queue, workers,
                   op, tokens, faultsUsed, opsUsed, edit>>

\* create_manual_post: a Document without files, with the review_status of
\* the request and no review_reasons, and its version 1, in one commit.
CreateManualPost(review_status) ==
    /\ edit = NoEdit
    /\ UseEdit
    /\ docs' = docs \cup
               {[id |-> nextDoc, job |-> NULL, source |-> "manual", source_ref |-> NULL,
                 category |-> IngestCategory, event_date |-> NULL, tags |-> {},
                 current_version_no |-> 1, versions |-> {1}, links |-> {},
                 review_status |-> review_status, review_reasons |-> <<>>]}
    /\ nextDoc' = nextDoc + 1
    /\ audit' = AddAudit(audit, "DOCUMENT_MANUAL_POST_CREATE", nextDoc)
    /\ searchQueue' = enqueue_document_index_sync(searchQueue, nextDoc)
    /\ UNCHANGED <<moreVars, indexVars, rulesVars, tokenVars, requestVars, now, reqs, jobs, events, files, blobs, puts, temps, tempBytes, nextPath, queue,
                   workers, op, tokens, faultsUsed, opsUsed, edit>>

\* patch_document: review_status is written when the request carries it;
\* review_reasons is not a field of the request.
PatchDocument(d, review_status) ==
    /\ d \in docs
    /\ edit = NoEdit
    /\ UseEdit
    /\ docs' = ReplaceDoc(docs, d,
                 append_document_version(
                   [d EXCEPT !.review_status = IF review_status = "unset" THEN @
                                               ELSE review_status]))
    /\ audit' = AddAudit(audit, "DOCUMENT_UPDATE", d.id)
    /\ searchQueue' = enqueue_document_index_sync(searchQueue, d.id)
    /\ UNCHANGED <<moreVars, indexVars, rulesVars, tokenVars, requestVars, now, reqs, jobs, events, nextDoc, files, blobs, puts, temps, tempBytes,
                   nextPath, queue, workers, op, tokens, faultsUsed, opsUsed, edit>>

Without(seq, rs) == SelectSeq(seq, LAMBDA r : r \notin rs)

\* _apply_review_update and the commit of its caller: a category in the
\* request clears CLASSIFY_FAIL, reason_remove clears the named reasons,
\* approve clears all; review_status follows the remaining reasons.
ReviewUpdate(d, recategorize, reason_remove, approve) ==
    LET kept == Without(d.review_reasons,
                        reason_remove \cup (IF recategorize THEN {"CLASSIFY_FAIL"} ELSE {}))
        reasons == IF approve THEN <<>> ELSE kept
        status == IF approve \/ reasons = <<>> THEN "RESOLVED" ELSE "NEEDS_REVIEW"
        changed == recategorize \/ reasons # d.review_reasons \/ status # d.review_status
    IN
    /\ d \in docs
    /\ edit = NoEdit
    /\ UseEdit
    /\ IF changed
       THEN /\ docs' = ReplaceDoc(docs, d,
                         append_document_version(
                           [d EXCEPT !.review_reasons = reasons, !.review_status = status]))
            /\ audit' = AddAudit(audit, "REVIEW_QUEUE_UPDATE", d.id)
            /\ searchQueue' = enqueue_document_index_sync(searchQueue, d.id)
       ELSE UNCHANGED <<docs, audit, searchQueue>>
    /\ UNCHANGED <<moreVars, indexVars, rulesVars, tokenVars, requestVars, now, reqs, jobs, events, nextDoc, files, blobs, puts, temps, tempBytes,
                   nextPath, queue, workers, op, tokens, faultsUsed, opsUsed, edit>>

\* ------------------------------------------------- rules administration
UseRuleOp == ruleOpsUsed < MaxRuleOps /\ ruleOpsUsed' = ruleOpsUsed + 1

RuleVersion(rs, version_no, is_active) ==
    [ruleset |-> rs, version_no |-> version_no, is_active |-> is_active]

VersionsOf(rvs, rs) == {rv \in rvs : rv.ruleset = rs}

IngestVars == <<now, reqs, jobs, events, docs, nextDoc, files, blobs, puts, temps, tempBytes,
                nextPath, queue, workers, op, tokens, faultsUsed, opsUsed>>

\* create_ruleset
CreateRuleset(rs) ==
    /\ ~rulesets[rs].exists
    /\ UseRuleOp
    /\ rulesets' = [rulesets EXCEPT ![rs] = [@ EXCEPT !.exists = TRUE]]
    /\ audit' = AddAudit(audit, "RULESET_CREATE", rs)
    /\ UNCHANGED <<IngestVars, moreVars, searchVars, catalogVars, tokenVars, requestVars, ruleVersions, admins>>

\* create_rule_version: version_no = max + 1, inactive
CreateRuleVersion(rs) ==
    LET no == Cardinality(VersionsOf(ruleVersions, rs)) + 1 IN
    /\ rulesets[rs].exists
    /\ no <= MaxVersions
    /\ UseRuleOp
    /\ ruleVersions' = ruleVersions \cup {RuleVersion(rs, no, FALSE)}
    /\ audit' = AddAudit(audit, "RULE_VERSION_CREATE", <<rs, no>>)
    /\ UNCHANGED <<IngestVars, moreVars, searchVars, catalogVars, tokenVars, requestVars, rulesets, admins>>

\* import_rules: a new ruleset with versions 1..n, the last one active when
\* activate_latest is set
ImportRules(rs, n, activate_latest) ==
    /\ ~rulesets[rs].exists
    /\ UseRuleOp
    /\ rulesets' = [rulesets EXCEPT ![rs] =
                      [exists |-> TRUE,
                       current_version_id |-> IF activate_latest THEN n ELSE NULL]]
    /\ ruleVersions' = ruleVersions \cup
                       {RuleVersion(rs, no, activate_latest /\ no = n) : no \in 1..n}
    /\ audit' = AddAudit(audit, "RULES_IMPORT", rs)
    /\ UNCHANGED <<IngestVars, moreVars, searchVars, catalogVars, tokenVars, requestVars, admins>>

\* activate_rule_version lines 322-339: the request loads the version and
\* the rows of its ruleset into its session.
ActivateLoad(a, rv) ==
    /\ admins[a].pc = "idle"
    /\ rv \in ruleVersions
    /\ UseRuleOp
    /\ admins' = [admins EXCEPT ![a] =
                    [pc |-> "loaded", ruleset |-> rv.ruleset, version_no |-> rv.version_no,
                     rows |-> VersionsOf(ruleVersions, rv.ruleset)]]
    /\ UNCHANGED <<IngestVars, moreVars, searchVars, catalogVars, tokenVars, requestVars, audit, rulesets, ruleVersions>>

\* The UPDATEs of the flush: a column is written only when its value differs
\* from the value the session loaded.  Loaded rows other than the target
\* that were active become inactive; the target becomes active unless it
\* was loaded as active.
ActivateFlush(rvs, loaded, version_no) ==
    {IF \E row \in loaded : row.ruleset = rv.ruleset /\ row.version_no = rv.version_no
     THEN LET row == CHOOSE r \in loaded :
                        r.ruleset = rv.ruleset /\ r.version_no = rv.version_no
          IN  IF row.version_no = version_no
              THEN (IF row.is_active THEN rv ELSE [rv EXCEPT !.is_active = TRUE])
              ELSE (IF row.is_active THEN [rv EXCEPT !.is_active = FALSE] ELSE rv)
     ELSE rv : rv \in rvs}

\* activate_rule_version lines 341-364: the commit and the AuditLog row
ActivateCommit(a) ==
    /\ admins[a].pc = "loaded"
    /\ ruleVersions' = ActivateFlush(ruleVersions, admins[a].rows, admins[a].version_no)
    /\ rulesets' = [rulesets EXCEPT ![admins[a].ruleset] =
                      [@ EXCEPT !.current_version_id = admins[a].version_no]]
    /\ audit' = AddAudit(audit, "RULE_VERSION_ACTIVATE",
                         <<admins[a].ruleset, admins[a].version_no>>)
    /\ admins' = [admins EXCEPT ![a] = IdleAdmin]
    /\ UNCHANGED <<IngestVars, moreVars, searchVars, catalogVars, tokenVars, requestVars, ruleOpsUsed>>

\* ----------------------------------------------------------- action tokens
\* datetime.timestamp() has sub-second resolution; int() of it drops the
\* fraction.  Instants are counted in ticks.
TicksPerSecond == 2
Seconds(ticks) == ticks \div TicksPerSecond

Secret == "openclaw_action_secret"
OtherSecret == "not the secret"
Actions == {"retry", "reprocess"}

\* json.dumps(payload, separators=(",", ":"), sort_keys=True): the compact
\* text of the object; json.loads reads any text of an object.
json_dumps(payload) == [obj |-> payload, text |-> "compact"]
json_loads(payload_raw) == payload_raw.obj

\* a signature that does not depend on the signed bytes
sign_constant(payload_raw, secret) == [key |-> secret, msg |-> "any"]

\* _sign: HMAC-SHA256 of the bytes under the secret
sign(payload_raw, secret) == [key |-> secret, msg |-> payload_raw]

\* _b64url_encode gives the canonical text of the bytes; _b64url_decode
\* accepts every text of them (it ignores the unused bits of the last
\* character) and fails on a malformed one.
b64url_encode(raw) == [bytes |-> raw, text |-> "canonical"]
b64url_decode(b64) == IF b64.text = "malformed" THEN [error |-> TRUE] ELSE [error |-> FALSE, bytes |-> b64.bytes]

issue_action_token(job_id, action, now_dt, ttl_seconds) ==
    LET token_ttl_seconds == IF ttl_seconds = 0 THEN ActionTtlSeconds ELSE ttl_seconds
        exp == Seconds(now_dt) + Max(1, token_ttl_seconds)
        payload_raw == json_dumps([v |-> 1, job_id |-> job_id, action |-> action, exp |-> exp])
    IN  [token |-> <<b64url_encode(payload_raw), b64url_encode(sign(payload_raw, Secret))>>,
         expires_at |-> exp * TicksPerSecond]

\* a verification that accepts every token
verify_always_ok(token, job_id, action, now_dt) == "ok"

\* verify_action_token: "ok" or the message of OpenClawActionTokenError.
\* token is the sequence of its parts around the first ".".
verify_action_token(token, job_id, action, now_dt) ==
    IF Len(token) < 2 THEN "invalid token format"
    ELSE LET payload_raw == b64url_decode(token[1])
             signature == b64url_decode(token[2])
         IN  IF payload_raw.error \/ signature.error THEN "invalid token encoding"
             ELSE IF signature.bytes # sign(payload_raw.bytes, Secret)
             THEN "invalid token signature"
             ELSE LET payload == json_loads(payload_raw.bytes) IN
                  IF payload.job_id # job_id THEN "token job mismatch"
                  ELSE IF payload.action # action THEN "token action mismatch"
                  ELSE IF Seconds(now_dt) > payload.exp THEN "token expired"
                  ELSE "ok"

TamperKinds ==
    {"none", "no_dot", "payload_job", "payload_action", "payload_exp", "payload_spacing",
     "payload_text", "signature_text", "signature_key", "resigned", "malformed"}

\* The tokens a caller can make from an issued one without the secret.
Tamper(token, kind) ==
    LET raw == token[1].bytes
        obj == raw.obj
        with(o) == [token EXCEPT ![1] = b64url_encode([raw EXCEPT !.obj = o])]
    IN  CASE kind = "none" -> token
          [] kind = "no_dot" -> <<token[1]>>
          [] kind = "payload_job" -> with([obj EXCEPT !.job_id = @ + 1])
          [] kind = "payload_action" ->
                with([obj EXCEPT !.action = IF @ = "retry" THEN "reprocess" ELSE "retry"])
          [] kind = "payload_exp" -> with([obj EXCEPT !.exp = @ + ActionTtlSeconds])
          [] kind = "payload_spacing" ->
                [token EXCEPT ![1] = b64url_encode([raw EXCEPT !.text = "spaced"])]
          [] kind = "payload_text" -> [token EXCEPT ![1] = [@ EXCEPT !.text = "other"]]
          [] kind = "signature_text" -> [token EXCEPT ![2] = [@ EXCEPT !.text = "other"]]
          [] kind = "signature_key" ->
                [token EXCEPT ![2] = b64url_encode(sign(raw, OtherSecret))]
          [] kind = "resigned" ->
                <<b64url_encode([raw EXCEPT !.obj = [obj EXCEPT !.exp = @ + ActionTtlSeconds]]),
                  b64url_encode(sign([raw EXCEPT !.obj = [obj EXCEPT !.exp = @ + ActionTtlSeconds]],
                                     OtherSecret))>>
          [] OTHER -> [token EXCEPT ![1] = [@ EXCEPT !.text = "malformed"]]

IssueToken(job_id, action, now_dt, ttl_seconds) ==
    /\ tokenCheck.stage = "idle"
    /\ tokenCheck' = [stage |-> "issued", job_id |-> job_id, action |-> action,
                      issued |-> issue_action_token(job_id, action, now_dt, ttl_seconds)]
    /\ UNCHANGED <<IngestVars, audit, moreVars, searchVars, catalogVars, rulesVars, requestVars>>

VerifyToken(kind, job_id, action, now_dt) ==
    LET presented == Tamper(tokenCheck.issued.token, kind) IN
    /\ tokenCheck.stage = "issued"
    /\ tokenCheck' = [stage |-> "verified", job_id |-> tokenCheck.job_id,
                      action |-> tokenCheck.action, issued |-> tokenCheck.issued,
                      presented |-> presented, for_job |-> job_id, for_action |-> action,
                      now |-> now_dt,
                      result |-> verify_action_token(presented, job_id, action, now_dt)]
    /\ UNCHANGED <<IngestVars, audit, moreVars, searchVars, catalogVars, rulesVars, requestVars>>

\* ------------------------------------------------------- action endpoints
MaxActionsLeft == actionsUsed < MaxActions

\* The token build_result_actions put in the callback for an action of the
\* job: issued at exp - ttl with the default ttl.
CallbackToken(t, action) ==
    issue_action_token(t.job, action, (t.exp - ActionTtlSeconds) * TicksPerSecond, 0).token

\* the tokens the producer holds for an action of job j
IssuedTokens(j, action) == {CallbackToken(t, action) : t \in {u \in tokens : u.job = j}}

ActionCall(j, action, token) == [job |-> j, action |-> action, token |-> token]

\* the calls the callbacks offer: each token at the endpoint it was issued for
Offered == {ActionCall(t.job, a, CallbackToken(t, a)) : t \in tokens, a \in Actions}

\* Calls made from the most recent callback: without a token, at the
\* endpoint of another job or of the other action, or with a token made
\* from the issued one.
Altered ==
    LET latest == {t \in tokens : \A u \in tokens : u.exp <= t.exp} IN
    UNION {   {ActionCall(t.job, a, <<>>)}
         \cup {ActionCall(j, a, CallbackToken(t, a)) : j \in JobIds \ {t.job}}
         \cup {ActionCall(t.job, b, CallbackToken(t, a)) : b \in Actions \ {a}}
         \cup {ActionCall(t.job, a, Tamper(CallbackToken(t, a), k)) : k \in TamperKinds \ {"none"}}
         : t \in latest, a \in Actions}

\* no task is waiting and no handler or worker is in the middle of its work
Quiescent ==
    /\ queue = EmptyBag
    /\ \A w \in DOMAIN workers : workers[w].pc = "idle"
    /\ \A r \in Reqs : reqs[r].pc \in {"new", "done"}

\* A request arrives now, or later, after the expiry of a token; the
\* pipeline has finished its pending work by then.
Instants == {now} \cup (IF Quiescent THEN {t.exp + 1 : t \in tokens} ELSE {})

\* _require_action_token: "ok" or the detail of the 401 response
require_action_token(job_id, action, token, now_dt) ==
    IF token = <<>> THEN "missing action token"
    ELSE verify_action_token(token, job_id, action, now_dt)

Response(status, j, action, token, at) ==
    [status |-> status, job |-> j, action |-> action, token |-> token, at |-> at]

\* the request bodies: reset_attempts, clear_error, force
IngestActionRequest ==
    [reset_attempts : BOOLEAN, clear_error : BOOLEAN, force : BOOLEAN]

\* the body the callback gives for the action (build_result_actions payload)
CallbackRequest(action) ==
    [reset_attempts |-> action = "reprocess", clear_error |-> TRUE, force |-> FALSE]

\* ingest_action_retry / ingest_action_reprocess, up to the commit of the job
\* row and its event or to the error response.
ActionEndpoint(j, action, token, at, req) ==
    /\ op = NoOp
    /\ request = NoRequest
    /\ MaxActionsLeft
    /\ actionsUsed' = actionsUsed + 1
    /\ at >= now
    /\ now' = at
    /\ IF require_action_token(j, action, token, at * TicksPerSecond) # "ok"
       THEN /\ request' = Response(401, j, action, token, at)
            /\ UNCHANGED <<jobs, events, op>>
       ELSE IF ~jobs[j].exists
       THEN /\ request' = Response(404, j, action, token, at)
            /\ UNCHANGED <<jobs, events, op>>
       ELSE IF ~ActionAllowed(jobs[j], req.force)
       THEN /\ request' = Response(409, j, action, token, at)
            /\ UNCHANGED <<jobs, events, op>>
       ELSE /\ request' = Response(200, j, action, token, at)
            /\ jobs' = [jobs EXCEPT ![j] = RequeueJob(@, req.reset_attempts, req.clear_error)]
            /\ events' = [events EXCEPT ![j] =
                            AppendEvent(@, PlainEvent(jobs[j].state, "RECEIVED",
                                                      ActionEventType(action)))]
            /\ op' = [kind |-> IF action = "retry" THEN "INGEST_JOB_ACTION_RETRY"
                               ELSE "INGEST_JOB_ACTION_REPROCESS", job |-> j]
    /\ UNCHANGED <<moreVars, searchVars, catalogVars, rulesVars, tokenVars, reqs, audit, docs, nextDoc, files, blobs,
                   puts, temps, tempBytes, nextPath, queue, workers, tokens, faultsUsed, opsUsed>>

\* the error response leaves the handler
Respond ==
    /\ request.status \in {401, 404, 409}
    /\ request' = NoRequest
    /\ UNCHANGED <<moreVars, searchVars, catalogVars, rulesVars, tokenVars, actionsUsed, now, reqs, jobs, events, audit,
                   docs, nextDoc, files, blobs, puts, temps, tempBytes, nextPath, queue, workers,
                   op, tokens, faultsUsed, opsUsed>>

\* -------------------------------------------------------------- rule engine
\* Strings are sequences of characters; None and "" are both <<>> where the
\* code only tests truth.  JSON values of rules_json carry their type.
\* code points, for the order of sorted()
CodePoint(c) ==
    CASE c = " " -> 32 [] c = "-" -> 45 [] c = ":" -> 58 [] c = "F" -> 70 [] c = "a" -> 97
      [] c = "b" -> 98 [] c = "c" -> 99 [] c = "d" -> 100 [] c = "f" -> 102 [] c = "i" -> 105
      [] c = "k" -> 107 [] c = "m" -> 109 [] c = "o" -> 111 [] c = "s" -> 115 [] c = "w" -> 119
      [] c = "x" -> 120

RECURSIVE StrLess(_, _)
StrLess(s, t) ==
    IF t = <<>> THEN FALSE
    ELSE IF s = <<>> THEN TRUE
    ELSE IF Head(s) # Head(t) THEN CodePoint(Head(s)) < CodePoint(Head(t))
    ELSE StrLess(Tail(s), Tail(t))

RECURSIVE sorted(_)
sorted(S) ==
    IF S = {} THEN <<>>
    ELSE LET m == CHOOSE x \in S : \A y \in S \ {x} : StrLess(x, y)
         IN  <<m>> \o sorted(S \ {m})

\* [0-9A-Za-z]{2,}: the runs of letters of a text that are two or more long
IsAlnum(c) == c \notin {" ", "-", ":"}
RECURSIVE TokensFrom(_, _)
TokensFrom(s, run) ==
    IF s = <<>> THEN (IF Len(run) >= 2 THEN <<run>> ELSE <<>>)
    ELSE IF IsAlnum(Head(s)) THEN TokensFrom(Tail(s), Append(run, Head(s)))
    ELSE (IF Len(run) >= 2 THEN <<run>> ELSE <<>>) \o TokensFrom(Tail(s), <<>>)

RECURSIVE Flatten(_)
Flatten(ss) == IF ss = <<>> THEN <<>> ELSE Head(ss) \o Flatten(Tail(ss))

\* the tokens of a text given as its words
findall(words) == Flatten([i \in 1..Len(words) |-> TokensFrom(words[i], <<>>)])

\* JSON values
JNull == [t |-> "null"]
JMissing == [t |-> "missing"]
JStr(s) == [t |-> "str", v |-> s]
JNum(n) == [t |-> "num", v |-> n]
JBool(b) == [t |-> "bool", v |-> b]
JList(items) == [t |-> "list", v |-> items]
\* an object: the values of the keys the rule engine reads
JRule(category, keywords, tags, match) ==
    [t |-> "dict", category |-> category, keywords |-> keywords, tags |-> tags,
     match |-> match]
\* the "keywords" object of a category rule, with its value for "title"
JKeywords(title) == [t |-> "dict", title |-> title]

\* Python truth of a value
truthy(j) ==
    CASE j.t \in {"null", "missing"} -> FALSE
      [] j.t = "num" -> j.v # 0
      [] j.t = "bool" -> j.v
      [] j.t \in {"str", "list"} -> j.v # <<>>
      [] j.t = "dict" -> TRUE

\* a for loop over the value: a number or boolean raises TypeError
iterable(j) == j.t \in {"str", "list", "dict"}
items(j) ==
    CASE j.t = "list" -> j.v
      [] j.t = "str" -> [i \in 1..Len(j.v) |-> JStr(<<j.v[i]>>)]
      [] j.t = "dict" -> <<JStr(<<"k">>)>>

Raised(exc) == [raised |-> TRUE, exc |-> exc]

\* rule_categories.extract_categories_from_rules_json, add_category
add_category(names, raw) ==
    IF raw.t # "str" THEN names
    ELSE IF strip(raw.v) = <<>> THEN names
    ELSE IF \E i \in 1..Len(names) : slugify(names[i]) = slugify(strip(raw.v)) THEN names
    ELSE Append(names, strip(raw.v))

RECURSIVE add_categories(_, _)
add_categories(names, its) ==
    IF its = <<>> THEN names
    ELSE add_categories(IF Head(its).t = "dict" THEN add_category(names, Head(its).category)
                        ELSE names,
                        Tail(its))

Kita == <<"k">>   \* the built-in default category

extract_categories_from_rules_json(rules) ==
    LET cr == IF truthy(rules.category_rules) THEN rules.category_rules ELSE JList(<<>>)
        tr == IF truthy(rules.tag_category_rules) THEN rules.tag_category_rules ELSE JList(<<>>)
    IN  IF ~iterable(cr) \/ ~iterable(tr) THEN Raised("TypeError")
        ELSE LET names == add_category(
                            add_categories(add_categories(<<>>, items(cr)), items(tr)),
                            rules.default_category)
             IN  [raised |-> FALSE, names |-> IF names = <<>> THEN <<Kita>> ELSE names]

\* a dict as the sequence of its (key, value) pairs in insertion order
HasKey(map, key) == \E i \in 1..Len(map) : map[i].key = key
Get(map, key) ==
    IF HasKey(map, key)
    THEN map[CHOOSE i \in 1..Len(map) : map[i].key = key /\ \A k \in 1..(i - 1) : map[k].key # key].name
    ELSE <<>>

RECURSIVE build_allowed_category_map(_, _)
build_allowed_category_map(allowed, names) ==
    IF names = <<>> THEN allowed
    ELSE LET name == strip(Head(names))
             key == normalize_tag_key(name)
         IN  build_allowed_category_map(
               IF name = <<>> \/ HasKey(allowed, key) THEN allowed
               ELSE Append(allowed, [key |-> key, name |-> name]),
               Tail(names))

\* _match_keywords: "true", "false" or the exception it raises.  A keyword
\* is in a text when it is one of its words, in lower case.
RECURSIVE any_keyword(_, _)
any_keyword(words, kws) ==
    IF kws = <<>> THEN "false"
    ELSE IF Head(kws).t # "str" THEN "AttributeError"
    ELSE IF \E i \in 1..Len(words) : lower(words[i]) = lower(Head(kws).v) THEN "true"
    ELSE any_keyword(words, Tail(kws))

match_keywords(words, keywords) ==
    IF ~iterable(keywords) THEN "TypeError" ELSE any_keyword(words, items(keywords))

ordered_sources == <<"title", "description", "filename", "body">>

TextOf(ctx, source) ==
    CASE source = "title" -> ctx.title
      [] source = "description" -> ctx.description
      [] source = "filename" -> ctx.filename
      [] source = "body" -> ctx.body_text

\* rule_keywords.get(source_name, []) if isinstance(rule_keywords, dict) else []
keywords_of(rule, source) ==
    IF rule.keywords.t = "dict" /\ source \in DOMAIN rule.keywords
    THEN rule.keywords[source] ELSE JList(<<>>)

\* apply_rules lines 296-318: the first rule, by source and then by rule,
\* whose keywords match; or the exception met on the way
RECURSIVE first_match(_, _, _, _)
first_match(ctx, category_rules, s, r) ==
    IF s > Len(ordered_sources) THEN [kind |-> "none"]
    ELSE IF TextOf(ctx, ordered_sources[s]) = <<>> \/ r > Len(category_rules)
    THEN first_match(ctx, category_rules, s + 1, 1)
    ELSE LET keywords == keywords_of(category_rules[r], ordered_sources[s])
             m == IF truthy(keywords) THEN match_keywords(TextOf(ctx, ordered_sources[s]), keywords)
                  ELSE "false"
         IN  IF m = "true" THEN [kind |-> "match", rule |-> category_rules[r]]
             ELSE IF m = "false" THEN first_match(ctx, category_rules, s, r + 1)
             ELSE [kind |-> "raise", exc |-> m]

\* _extract_keyword_tags
RECURSIVE keyword_tags(_, _, _)
keyword_tags(found, existing_keys, inferred) ==
    IF found = <<>> \/ Len(inferred) >= 12 THEN inferred
    ELSE LET normalized == lower(Head(found))
             key == normalize_tag_key(normalized)
         IN  IF key \in existing_keys THEN keyword_tags(Tail(found), existing_keys, inferred)
             ELSE keyword_tags(Tail(found), existing_keys \cup {key},
                               Append(inferred, normalized))

extract_keyword_tags(ctx, existing_tags) ==
    keyword_tags(findall(ctx.title \o ctx.description \o ctx.caption_raw),
                 {normalize_tag_key(existing_tags[i]) : i \in 1..Len(existing_tags)}, <<>>)

\* [tag.strip() for tag in tags if tag.strip()]
nonblank(tags) == SelectSeq([i \in 1..Len(tags) |-> strip(tags[i])], LAMBDA t : t # <<>>)

\* the tags in order, without blanks and without a repeated key
RECURSIVE ordered_tags(_, _, _)
ordered_tags(raws, seen, out) ==
    IF raws = <<>> THEN out
    ELSE LET tag == strip(Head(raws))
             key == normalize_tag_key(tag)
         IN  IF tag = <<>> \/ key \in seen THEN ordered_tags(Tail(raws), seen, out)
             ELSE ordered_tags(Tail(raws), seen \cup {key}, Append(out, tag))

\* _tag_matches_pattern for patterns without "*"
tag_matches_pattern(tag_values, pattern) ==
    normalize_tag_key(pattern) # <<>> /\ normalize_tag_key(pattern) \in tag_values

\* _infer_category_from_tag_rules: the category of the first matching rule,
\* <<>> for None
RECURSIVE by_tag_rules(_, _)
by_tag_rules(tag_values, tag_rules) ==
    IF tag_rules = <<>> THEN <<>>
    ELSE LET rule == Head(tag_rules)
             category == IF rule.category.t = "str" THEN strip(rule.category.v) ELSE <<>>
             raw == IF rule.tags.t = "list" THEN rule.tags.v ELSE <<>>
             patterns == {strip(raw[i].v) : i \in {k \in 1..Len(raw) : raw[k].t = "str"}} \ {<<>>}
             all == rule.match.t = "str" /\ lower(strip(rule.match.v)) = <<"a", "l", "l">>
             matched == IF all THEN \A p \in patterns : tag_matches_pattern(tag_values, p)
                        ELSE \E p \in patterns : tag_matches_pattern(tag_values, p)
         IN  IF category # <<>> /\ patterns # {} /\ matched THEN category
             ELSE by_tag_rules(tag_values, Tail(tag_rules))

\* _KIND_CATEGORY_MAP and _SET_CATEGORY_MAP, one entry of each: "manual" ->
\* "매뉴얼" is written m -> cc and "dcp" -> "DCP" is written d -> dd; the keys
\* "kind" and "set" of a structured tag are written ki and s
KIND_CATEGORY_MAP == <<[key |-> <<"m">>, name |-> <<"c", "c">>]>>
SET_CATEGORY_MAP == <<[key |-> <<"d">>, name |-> <<"d", "d">>]>>
KindKey == <<"k", "i">>
SetKey == <<"s">>

\* tag.split(":", maxsplit=1)
RECURSIVE before_colon(_)
before_colon(s) ==
    IF s = <<>> \/ Head(s) = ":" THEN <<>> ELSE <<Head(s)>> \o before_colon(Tail(s))
after_colon(s) == SubSeq(s, Len(before_colon(s)) + 2, Len(s))

\* _extract_structured_tag_map: the first value of each key of the
\* "key:value" tags
RECURSIVE extract_structured_tag_map(_, _)
extract_structured_tag_map(tags, tag_map) ==
    IF tags = <<>> THEN tag_map
    ELSE LET tag == strip(Head(tags))
             key == lower(strip(before_colon(tag)))
             value == strip(after_colon(tag))
         IN  extract_structured_tag_map(
               Tail(tags),
               IF before_colon(tag) = tag \/ key = <<>> \/ value = <<>> \/ HasKey(tag_map, key)
               THEN tag_map
               ELSE Append(tag_map, [key |-> key, name |-> value]))

\* _infer_category_from_tags with allow_auto_plain_fallback=False: the tag
\* rules, then the kind and the set of the structured tags; <<>> for None
infer_category_from_tags(explicit_tags, auto_tag_candidates, rules) ==
    LET tags == ordered_tags(explicit_tags \o auto_tag_candidates, {}, <<>>)
        raw == rules.tag_category_rules
        tag_rules == IF raw.t = "list" THEN SelectSeq(raw.v, LAMBDA r : r.t = "dict") ELSE <<>>
        by_rule == IF tag_rules = <<>> THEN <<>>
                   ELSE by_tag_rules({normalize_tag_key(tags[i]) : i \in 1..Len(tags)}, tag_rules)
        structured == extract_structured_tag_map(tags, <<>>)
        kind == lower(strip(Get(structured, KindKey)))
        set_key == lower(strip(Get(structured, SetKey)))
    IN  IF tags = <<>> THEN <<>>
        ELSE IF by_rule # <<>> THEN by_rule
        ELSE IF HasKey(KIND_CATEGORY_MAP, kind) THEN Get(KIND_CATEGORY_MAP, kind)
        ELSE IF HasKey(SET_CATEGORY_MAP, set_key) THEN Get(SET_CATEGORY_MAP, set_key)
        ELSE <<>>

AutoTagLimit == 3

\* apply_rules lines 378-395
RECURSIVE limited_auto_tags(_, _, _)
limited_auto_tags(raws, keys, out) ==
    IF raws = <<>> \/ Len(out) >= AutoTagLimit THEN out
    ELSE LET tag == strip(Head(raws))
             key == normalize_tag_key(tag)
         IN  IF tag = <<>> \/ key \in keys THEN limited_auto_tags(Tail(raws), keys, out)
             ELSE limited_auto_tags(Tail(raws), keys \cup {key}, Append(out, tag))

IngestedDate == 9   \* ctx.ingested_at.date()

\* apply_rules lines 249-262, for rules whose categories can be extracted
default_stripped(rules) ==
    IF rules.default_category.t = "str" /\ strip(rules.default_category.v) # <<>>
    THEN strip(rules.default_category.v) ELSE Kita

allowed_from_rules(rules) ==
    build_allowed_category_map(<<>>, extract_categories_from_rules_json(rules).names)

default_category_of(rules) ==
    LET key == normalize_tag_key(default_stripped(rules)) IN
    IF HasKey(allowed_from_rules(rules), key) THEN Get(allowed_from_rules(rules), key)
    ELSE default_stripped(rules)

allowed_category_map(rules) ==
    LET key == normalize_tag_key(default_stripped(rules)) IN
    IF HasKey(allowed_from_rules(rules), key) THEN allowed_from_rules(rules)
    ELSE Append(allowed_from_rules(rules), [key |-> key, name |-> default_stripped(rules)])

\* variant: every category is accepted as it is written
resolve_any_category(allowed, raw) == raw

\* resolve_allowed_category of apply_rules; <<>> for None
resolve_allowed_category(allowed, raw) ==
    IF raw = <<>> THEN <<>> ELSE Get(allowed, normalize_tag_key(raw))

\* F applied to the value of x
With(x, F(_)) == CHOOSE r \in {F(v) : v \in {x}} : TRUE

\* apply_rules lines 247-286: defaults, allowed categories, explicit tags and
\* the explicit category of the caption
rule_setup(ctx, rules) ==
    LET allowed == allowed_category_map(rules)
        raw_rules == rules.category_rules
        explicit == ctx.explicit_category
    IN  [default_category |-> default_category_of(rules),
         allowed |-> allowed,
         category_rules |-> IF raw_rules.t = "list"
                            THEN SelectSeq(raw_rules.v, LAMBDA r : r.t = "dict") ELSE <<>>,
         explicit_tags |-> nonblank(ctx.explicit_tags),
         allowed_explicit |-> IF explicit # <<>>
                              THEN resolve_allowed_category(allowed, strip(explicit))
                              ELSE <<>>]

\* lines 288-318: the keyword rules, tried unless the explicit category was
\* accepted
keyword_rules(ctx, a) ==
    LET m == IF a.allowed_explicit # <<>> THEN [kind |-> "none"]
             ELSE first_match(ctx, a.category_rules, 1, 1)
        by_rule == IF m.kind = "match" /\ m.rule.category.t = "str"
                   THEN resolve_allowed_category(a.allowed, strip(m.rule.category.v))
                   ELSE <<>>
    IN  IF m.kind = "raise" THEN Raised(m.exc)
        ELSE [raised |-> FALSE,
              category |-> IF a.allowed_explicit # <<>> THEN a.allowed_explicit
                           ELSE IF by_rule # <<>> THEN by_rule
                           ELSE a.default_category,
              category_resolved |-> a.allowed_explicit # <<>> \/ m.kind = "match",
              rule_tags |-> IF m.kind = "match" /\ m.rule.tags.t = "list"
                            THEN m.rule.tags.v ELSE <<>>,
              review_reasons |-> IF ctx.explicit_category # <<>> /\ a.allowed_explicit = <<>>
                                 THEN <<"CATEGORY_OUT_OF_RULESET">> ELSE <<>>]

\* lines 320-355: event date and automatic tag candidates.
\* infer_structured_tags finds no set, revision, kind or language marker in
\* the title, description and filename of the model.
date_and_candidates(ctx, a, b) ==
    LET auto == [i \in 1..Len(b.rule_tags) |-> b.rule_tags[i].v] IN
    [event_date |-> IF ctx.parsed_date # NULL THEN ctx.parsed_date ELSE IngestedDate,
     review_reasons |-> IF ctx.parsed_date # NULL THEN b.review_reasons
                        ELSE Append(b.review_reasons, "DATE_MISSING"),
     auto_tag_candidates |-> auto \o extract_keyword_tags(ctx, a.explicit_tags \o auto)]

\* lines 357-376: the category inferred from the tags, unless resolved
tag_inference(rules, a, b, c) ==
    LET inferred == IF b.category_resolved THEN <<>>
                    ELSE infer_category_from_tags(a.explicit_tags, c.auto_tag_candidates, rules)
    IN  [inferred |-> inferred,
         allowed_inferred |-> IF inferred # <<>>
                              THEN resolve_allowed_category(a.allowed, strip(inferred))
                              ELSE <<>>]

\* lines 357-397: reasons, category tag, limit of automatic tags, result
rule_output(a, b, c, d) ==
    LET category == IF d.allowed_inferred # <<>> THEN d.allowed_inferred ELSE b.category
        resolved == b.category_resolved \/ d.allowed_inferred # <<>>
        reasons == IF b.category_resolved \/ d.allowed_inferred # <<>> THEN c.review_reasons
                   ELSE IF d.inferred # <<>>
                   THEN Append(c.review_reasons, "CATEGORY_OUT_OF_RULESET")
                   ELSE Append(c.review_reasons, "CLASSIFY_FAIL")
        auto == IF category # <<>> /\ category # a.default_category
                THEN Append(c.auto_tag_candidates, category) ELSE c.auto_tag_candidates
    IN  [raised |-> FALSE, category |-> category,
         tags |-> sorted(Range(a.explicit_tags) \cup
                         Range(limited_auto_tags(auto,
                                 {normalize_tag_key(a.explicit_tags[i]) :
                                    i \in 1..Len(a.explicit_tags)}, <<>>))),
         event_date |-> c.event_date,
         review_reasons |-> IF ~resolved /\ "CLASSIFY_FAIL" \notin Range(reasons)
                            THEN Append(reasons, "CLASSIFY_FAIL") ELSE reasons]

apply_rules(ctx, rules) ==
    IF extract_categories_from_rules_json(rules).raised
    THEN extract_categories_from_rules_json(rules)
    ELSE With(rule_setup(ctx, rules), LAMBDA a :
         With(keyword_rules(ctx, a), LAMBDA b :
           IF b.raised THEN b
           ELSE IF \E i \in 1..Len(b.rule_tags) : b.rule_tags[i].t # "str"
           THEN Raised("AttributeError")
           ELSE With(date_and_candidates(ctx, a, b), LAMBDA c :
                With(tag_inference(rules, a, b, c), LAMBDA d :
                  rule_output(a, b, c, d)))))

\* the calls of apply_rules: captions, texts and rules_json values
Fo == <<"F", "o">>
fo == <<"f", "o">>
a_b == <<"a", " ", "b">>
a__b == <<"a", "-", "b">>
kw == <<"k", "w">>
cc == <<"c", "c">>
xx == <<"x", "x">>
dd == <<"d", "d">>
ki_m == <<"k", "i", ":", "m">>

RuleInput(explicit_category, explicit_tags, title, parsed_date) ==
    [explicit_category |-> explicit_category, explicit_tags |-> explicit_tags,
     title |-> title, description |-> <<>>, filename |-> <<<<"d", "o">>>>, body_text |-> <<>>,
     caption_raw |-> title \o (IF explicit_category # <<>> THEN <<explicit_category>> ELSE <<>>)
                          \o explicit_tags,
     parsed_date |-> parsed_date]

RuleInputs ==
    {RuleInput(ec, et, ti, pd) :
       ec \in {<<>>, cc, xx}, et \in {<<>>, <<Fo, fo>>, <<a_b, fo>>, <<ki_m>>},
       ti \in {<<kw>>, <<a__b>>}, pd \in {NULL, 1}}

GoodRule == JRule(JStr(cc), JKeywords(JList(<<JStr(kw)>>)), JList(<<JStr(kw)>>), JMissing)
NumberKeywordRule == JRule(JStr(cc), JKeywords(JList(<<JNum(5)>>)), JMissing, JMissing)
ScalarKeywordsRule == JRule(JStr(cc), JKeywords(JNum(7)), JMissing, JMissing)
NumberTagRule == JRule(JStr(cc), JKeywords(JList(<<JStr(kw)>>)), JList(<<JNum(1)>>), JMissing)
TagRule == JRule(JStr(cc), JMissing, JList(<<JStr(fo)>>), JMissing)

NonLists ==
    {JNull, JStr(<<"b">>), JNum(5), JNum(0), JBool(TRUE), JBool(FALSE),
     JRule(JMissing, JMissing, JMissing, JMissing)}

CategoryRulesValues ==
    NonLists \cup
    {JMissing, JList(<<>>), JList(<<GoodRule>>), JList(<<JNum(1), JStr(xx), GoodRule>>),
     JList(<<NumberKeywordRule>>), JList(<<ScalarKeywordsRule>>), JList(<<NumberTagRule>>)}

TagCategoryRulesValues ==
    {JMissing, JNum(5), JStr(<<"b">>), JList(<<JNum(1), TagRule>>)}

RulesValues ==
    [default_category : {JStr(dd), JMissing}, category_rules : CategoryRulesValues,
     tag_category_rules : TagCategoryRulesValues]

NoRuleCall == [stage |-> "idle"]

\* one call of apply_rules
ApplyRules(ctx, rules) ==
    /\ ruleCall = NoRuleCall
    /\ ruleCall' = [stage |-> "done", ctx |-> ctx, rules |-> rules,
                    out |-> apply_rules(ctx, rules)]
    /\ UNCHANGED <<IngestVars, audit, searchVars, catalogVars, rulesVars, tokenVars, requestVars,
                   backfillVars, backoffCall, classifyCall, httpVars, tagVars, taxonomyVars, brokerVars>>

\* ---------------------------------------------------------- read-only mode
\* request paths, cut where the middleware looks at them
api_prefix == <<"/api">>
LoginPath == api_prefix \o <<"/auth/login">>
LogoutPath == api_prefix \o <<"/auth/logout">>
TelegramPath == api_prefix \o <<"/ingest/telegram">>
READ_ONLY_SAFE_METHODS == {"GET", "HEAD", "OPTIONS"}
READ_ONLY_ALLOWED_PATHS == {LoginPath, LogoutPath}

Methods == READ_ONLY_SAFE_METHODS \cup {"POST", "PUT", "PATCH", "DELETE", "post"}
Paths ==
    {LoginPath, LogoutPath, TelegramPath, api_prefix \o <<"/health">>,
     LoginPath \o <<"/">>, <<"/metrics">>}

upper(method) == IF method = "post" THEN "POST" ELSE method
startswith(path, prefix) ==
    Len(prefix) <= Len(path) /\ SubSeq(path, 1, Len(prefix)) = prefix

\* variant: the middleware that checks the method only
read_only_blocks_every_path(mode, method, path) ==
    mode /\ startswith(path, api_prefix) /\ upper(method) \notin READ_ONLY_SAFE_METHODS

\* read_only_middleware: TRUE when the request is answered 503 instead of
\* being passed to call_next
read_only_blocks(mode, method, path) ==
    /\ mode
    /\ startswith(path, api_prefix)
    /\ upper(method) \notin READ_ONLY_SAFE_METHODS
    /\ path \notin READ_ONLY_ALLOWED_PATHS

\* a request of any method and path meets the middleware
HttpRequest(method, path) ==
    /\ http = NoHttp
    /\ http' = [stage |-> "done", read_only_mode |-> read_only_mode, method |-> method,
                path |-> path,
                status |-> IF read_only_blocks(read_only_mode, method, path) THEN 503 ELSE 0,
                call_next |-> ~read_only_blocks(read_only_mode, method, path)]
    /\ UNCHANGED <<IngestVars, audit, searchVars, catalogVars, rulesVars, tokenVars, requestVars,
                   backfillVars, pureVars, read_only_mode, tagVars, taxonomyVars, brokerVars>>

\* the API process is started again with the other READ_ONLY_MODE setting
SetReadOnlyMode(mode) ==
    /\ read_only_mode # mode
    /\ \A r \in Reqs : reqs[r].pc \in {"new", "done"}
    /\ read_only_mode' = mode
    /\ UNCHANGED <<IngestVars, audit, searchVars, catalogVars, rulesVars, tokenVars, requestVars,
                   backfillVars, pureVars, http, tagVars, taxonomyVars, brokerVars>>

\* ------------------------------------------------------ error classification
Exceptions ==
    {"FileNotFoundError", "PermissionError", "IsADirectoryError", "OSError", "IntegrityError",
     "ValueError", "TypeError", "KeyError", "RuntimeError", "TimeoutError"}
StageNames ==
    {"STORED", "EXTRACTED", "CLASSIFIED", "INDEXED", "PUBLISHED", "PIPELINE", "RECEIVED",
     "NEEDS_REVIEW", "FAILED", "UNKNOWN"}

\* classify_exception_for_stage called with an exception and a stage name
ClassifyException(exc, stage) ==
    /\ classifyCall.stage = "idle"
    /\ classifyCall' = [stage |-> "done", exc |-> exc, at |-> stage,
                        code |-> classify_exception_for_stage(exc, stage)]
    /\ UNCHANGED <<IngestVars, audit, searchVars, catalogVars, rulesVars, tokenVars, requestVars,
                   backfillVars, ruleCall, backoffCall, httpVars, tagVars, taxonomyVars, brokerVars>>

\* ------------------------------------------------------------ retry policy
\* compute_backoff_seconds called for an attempt and for the next one
ComputeBackoff(attempt_count, base_seconds, max_seconds) ==
    /\ backoffCall.stage = "idle"
    /\ backoffCall' =
         [stage |-> "done", attempt_count |-> attempt_count, base_seconds |-> base_seconds,
          max_seconds |-> max_seconds,
          delay |-> compute_backoff_seconds(attempt_count, base_seconds, max_seconds),
          next_delay |-> compute_backoff_seconds(attempt_count + 1, base_seconds, max_seconds)]
    /\ UNCHANGED <<IngestVars, audit, searchVars, catalogVars, rulesVars, tokenVars, requestVars,
                   backfillVars, ruleCall, classifyCall, httpVars, tagVars, taxonomyVars, brokerVars>>

\* ------------------------------------------------------------ the broker
\* the broker (Redis) becomes unreachable or comes back
BrokerFlip(state) ==
    /\ broker # state
    /\ broker' = state
    /\ UNCHANGED <<IngestVars, audit, searchVars, catalogVars, rulesVars, tokenVars, requestVars,
                   backfillVars, pureVars, httpVars, tagVars, taxonomyVars>>

\* _queue_ingest_job, process_ingest_job_task.delay with the broker down:
\* the call raises after both commits and the request is answered 500.
QueueDelayRejected(r) ==
    /\ reqs[r].pc = "evented"
    /\ broker = "down"
    /\ reqs' = [reqs EXCEPT ![r] = [@ EXCEPT !.pc = "done", !.result = "500"]]
    /\ UNCHANGED <<extVars, now, jobs, events, audit, docs, nextDoc, files, blobs, puts, temps,
                   tempBytes, nextPath, queue, workers, op, tokens, faultsUsed, opsUsed>>

\* the web process dies inside _queue_ingest_job after the commit of the
\* job row: the rest of the handler never runs.
HandlerCrash(r) ==
    /\ reqs[r].pc \in {"inserted", "evented"}
    /\ Fault
    /\ reqs' = [reqs EXCEPT ![r] = [@ EXCEPT !.pc = "done", !.result = "none"]]
    /\ UNCHANGED <<extVars, now, jobs, events, audit, docs, nextDoc, files, blobs, puts, temps,
                   tempBytes, nextPath, queue, workers, op, tokens, opsUsed>>

\* ---------------------------------------------------- category and tag rows
\* the three implementations of the upsert: ingest_service (pipeline),
\* taxonomy_service (backfill) and routes_documents (API handlers)
Impls == {"ingest", "taxonomy", "routes"}
Tables == {"categories", "tags"}
UpsertNames == {<<"F">>, <<"f">>, <<"a">>}

TaxonomyRow(table, slug, name) == [table |-> table, slug |-> slug, name |-> name]

\* select(...).where(slug == slug).scalar_one_or_none() on the committed rows
select_by_slug(rows, table, slug) == {r \in rows : r.table = table /\ r.slug = slug}

\* the row of another caller's open transaction holds the unique index entry
HeldByOther(c, table, slug) ==
    \E o \in Callers \ {c} :
        /\ taxonomy.calls[o].pc = "flushed"
        /\ taxonomy.calls[o].table = table
        /\ taxonomy.calls[o].slug = slug

SetCall(c, call) == taxonomy' = [taxonomy EXCEPT !.calls[c] = call]

\* routes_documents._upsert_tags lines 384-387: flush() without a handler
\* for IntegrityError
raises_on_conflict(impl, table) == impl = "routes" /\ table = "tags"

\* entry of _upsert_category / upsert_category / _upsert_tags / upsert_tags
\* for one name, up to the select by slug
UpsertSelect(c, impl, table, name) ==
    LET slug == slugify(strip(name))
        call == [pc |-> "insert", impl |-> impl, table |-> table, name |-> strip(name),
                 slug |-> slug, got |-> {}]
    IN
    /\ taxonomy.calls[c].pc = "idle"
    /\ SetCall(c, IF select_by_slug(taxonomy.rows, table, slug) # {}
                  THEN [call EXCEPT !.pc = "done",
                                    !.got = select_by_slug(taxonomy.rows, table, slug)]
                  ELSE call)
    /\ UNCHANGED <<IngestVars, audit, searchVars, catalogVars, rulesVars, tokenVars, requestVars,
                   backfillVars, pureVars, httpVars, tagVars, brokerVars>>

\* db.add(row) and db.commit() (ingest, taxonomy) or db.flush() (routes):
\* the INSERT waits while another transaction holds the slug; with the slug
\* committed it raises IntegrityError, which is followed by rollback and a
\* second select, except in the API upsert of tags.
UpsertInsert(c) ==
    LET call == taxonomy.calls[c]
        row == TaxonomyRow(call.table, call.slug, call.name)
        found == select_by_slug(taxonomy.rows, call.table, call.slug)
    IN
    /\ call.pc = "insert"
    /\ ~HeldByOther(c, call.table, call.slug)
    /\ IF found # {}
       THEN SetCall(c, IF raises_on_conflict(call.impl, call.table)
                       THEN [call EXCEPT !.pc = "raised"]
                       ELSE [call EXCEPT !.pc = "done", !.got = found])
       ELSE IF call.impl = "routes"
       THEN SetCall(c, [call EXCEPT !.pc = "flushed", !.got = {row}])
       ELSE taxonomy' = [taxonomy EXCEPT !.rows = @ \cup {row},
                                         !.calls[c] = [call EXCEPT !.pc = "done", !.got = {row}]]
    /\ UNCHANGED <<IngestVars, audit, searchVars, catalogVars, rulesVars, tokenVars, requestVars,
                   backfillVars, pureVars, httpVars, tagVars, brokerVars>>

\* db.commit() of the API handler after its upserts
UpsertCommit(c) ==
    LET call == taxonomy.calls[c] IN
    /\ call.pc = "flushed"
    /\ taxonomy' = [taxonomy EXCEPT !.rows = @ \cup call.got,
                                    !.calls[c] = [call EXCEPT !.pc = "done"]]
    /\ UNCHANGED <<IngestVars, audit, searchVars, catalogVars, rulesVars, tokenVars, requestVars,
                   backfillVars, pureVars, httpVars, tagVars, brokerVars>>

\* ---------------------------------------------------------------- backfill
\* what apply_rules can return for a document under some rule version
Categories == {IngestCategory, "report"}
EventDates == {NULL, IngestEventDate}
TagSets == {{}, IngestTags, {<<"F", "o">>}}
RuleOutputs ==
    [category : Categories, event_date : EventDates, tags : TagSets,
     review_reasons : RuleReasons]

\* sorted(set(reasons)): the reason codes in alphabetical order
ReasonOrder == <<"CATEGORY_OUT_OF_RULESET", "CLASSIFY_FAIL", "DUPLICATE_SUSPECT">>
SortedReasons(rs) == SelectSeq(ReasonOrder, LAMBDA r : r \in rs)

\* process_backfill_payload lines 145-148: the reasons of the rules, with
\* DUPLICATE_SUSPECT carried over from the document
new_review_reasons(d, rule_out) ==
    SortedReasons(Range(rule_out.review_reasons)
                  \cup (Range(d.review_reasons) \cap {"DUPLICATE_SUSPECT"}))

new_review_status(d, rule_out) ==
    IF new_review_reasons(d, rule_out) # <<>> THEN "NEEDS_REVIEW" ELSE "NONE"

\* line 153: the stripped, non-blank tag names of the rules (d.tags is what
\* _get_tag_names reads: the names of the Tag rows the document is linked to)
new_tag_names(rule_out) == {strip(tag) : tag \in {t \in rule_out.tags : strip(t) # <<>>}}

\* lines 157-163
changed(d, rule_out) ==
    \/ d.category # rule_out.category
    \/ d.event_date # rule_out.event_date
    \/ SortedReasons(Range(d.review_reasons)) # new_review_reasons(d, rule_out)
    \/ d.review_status # new_review_status(d, rule_out)
    \/ d.tags # new_tag_names(rule_out)

\* taxonomy_service.upsert_tags on the names in their sorted order: a name
\* whose slug has a row takes that row, another name inserts its row
RECURSIVE upsert_tags(_, _)
upsert_tags(rows, names) ==
    IF names = <<>> THEN rows
    ELSE upsert_tags(IF HasSlug(rows, TagSlug(Head(names))) THEN rows
                     ELSE rows \cup {Tag(Head(names))},
                     Tail(names))

\* replace_document_tags: the names of the Tag rows the document is linked
\* to afterwards
replace_document_tags(rows, names) == SelectTags(upsert_tags(rows, sorted(names)), names)

\* lines 168-171: the tags written by an update
tags_snapshot(rows, d, rule_out) ==
    IF d.tags # new_tag_names(rule_out)
    THEN replace_document_tags(rows, new_tag_names(rule_out))
    ELSE d.tags

\* what apply_rules returned for a document under a rule version: the
\* function is deterministic and the backfill writes none of its arguments
Applied(rs, no, d, rule_out) == [ruleset |-> rs, version_no |-> no, doc |-> d, out |-> rule_out]

\* a DocumentVersion row written by the backfill
BackfillVersion(d, version_no, rule_version_no) ==
    [doc |-> d, version_no |-> version_no,
     change_reason |-> <<"backfill_rule_v", rule_version_no>>]

\* the filter payloads of a run: category_id ("" for none), from, to,
\* review_only
Filters ==
    [category : {"", "report"}, from : {NULL, IngestEventDate}, to : {NULL},
     review_only : BOOLEAN]

\* _select_documents: the WHERE clause; a comparison with a NULL event_date
\* selects nothing
filter_matches(d, filter) ==
    /\ filter.category # "" => d.category = filter.category
    /\ filter.from # NULL => (d.event_date # NULL /\ d.event_date >= filter.from)
    /\ filter.to # NULL => (d.event_date # NULL /\ d.event_date <= filter.to)
    /\ filter.review_only => d.review_status = "NEEDS_REVIEW"

\* ORDER BY created_at: document ids are given out in creation order
RECURSIVE in_created_order(_)
in_created_order(ids) ==
    IF ids = {} THEN <<>>
    ELSE LET first == CHOOSE x \in ids : \A y \in ids : x <= y
         IN  <<first>> \o in_created_order(ids \ {first})

select_documents(ds, filter) ==
    in_created_order({d.id : d \in {x \in ds : filter_matches(x, filter)}})

\* base_stmt.offset(offset).limit(batch_size) run on the rows of now
page_of(ds, filter, offset, batch_size) ==
    LET rows == select_documents(ds, filter)
        last == IF offset + batch_size < Len(rows) THEN offset + batch_size ELSE Len(rows)
    IN  SubSeq(rows, offset + 1, last)

\* process_backfill_payload up to the loop: the rule version is looked up
\* and the BACKFILL_START row committed.
BackfillStartWithin(runs, rs, no, filter, batch_size) ==
    /\ backfill.pc = "idle"
    /\ backfill.runs < runs
    /\ Inputs < MaxInputs
    /\ IF RuleVersion(rs, no, TRUE) \in ruleVersions \/ RuleVersion(rs, no, FALSE) \in ruleVersions
       THEN /\ backfill' = [NoBackfill EXCEPT !.pc = "fetch", !.runs = backfill.runs + 1,
                                              !.version_no = no, !.filter = filter,
                                              !.batch_size = batch_size, !.at_start = docs,
                                              !.ruleset = rs, !.applied = backfill.applied]
            /\ audit' = AddAudit(audit, "BACKFILL_START", <<rs, no>>)
       ELSE /\ backfill' = [backfill EXCEPT !.runs = @ + 1]
            /\ audit' = audit
    /\ UNCHANGED <<IngestVars, searchVars, catalogVars, rulesVars, tokenVars, requestVars, pureVars, httpVars, tagVars, taxonomyVars, brokerVars>>

BackfillStart(rs, no, filter, batch_size) ==
    BackfillStartWithin(MaxBackfills, rs, no, filter, batch_size)

\* the head of the while loop, lines 121-124: the next page is read; an
\* empty page ends the loop.
BackfillFetch ==
    LET page == page_of(docs, backfill.filter, backfill.offset, backfill.batch_size) IN
    /\ backfill.pc = "fetch"
    /\ backfill' = [backfill EXCEPT !.page = page,
                                    !.pc = IF page = <<>> THEN "done" ELSE "run"]
    /\ UNCHANGED <<IngestVars, audit, searchVars, catalogVars, rulesVars, tokenVars, requestVars, pureVars, httpVars, tagVars, taxonomyVars, brokerVars>>

\* the end of a pass of the for loop: the next document of the page, or
\* offset += batch_size and the next page
next_in_page(b) ==
    IF Len(b.page) > 1 THEN [b EXCEPT !.page = Tail(@)]
    ELSE [b EXCEPT !.page = <<>>, !.offset = @ + b.batch_size, !.pc = "fetch"]

\* one pass of the loop body, lines 126-225, on the next document of the
\* page: rule_out is what apply_rules returns for it.
BackfillVisit(d, rule_out) ==
    LET reasons == new_review_reasons(d, rule_out)
        e == append_document_version(
               [d EXCEPT !.category = rule_out.category, !.event_date = rule_out.event_date,
                         !.tags = tags_snapshot(tagRows, d, rule_out),
                         !.review_reasons = reasons,
                         !.review_status = new_review_status(d, rule_out)])
    IN
    /\ backfill.pc = "run"
    /\ d \in docs
    /\ d.id = Head(backfill.page)
    /\ \A a \in backfill.applied :
          (a.ruleset = backfill.ruleset /\ a.version_no = backfill.version_no /\ a.doc = d.id)
             => a.out = rule_out
    /\ IF changed(d, rule_out)
       THEN /\ docs' = ReplaceDoc(docs, d, e)
            /\ tagRows' = IF d.tags # new_tag_names(rule_out)
                          THEN upsert_tags(tagRows, sorted(new_tag_names(rule_out)))
                          ELSE tagRows
            /\ audit' = AddAudit(audit, "DOCUMENT_BACKFILL_UPDATE", d.id)
            /\ backfill' = [next_in_page(backfill) EXCEPT
                              !.visited = @ \cup {d.id}, !.updated = @ + 1,
                              !.rule_out = rule_out,
                              !.applied = @ \cup {Applied(backfill.ruleset, backfill.version_no,
                                                          d.id, rule_out)},
                              !.updated_doc_ids = @ \cup {d.id},
                              !.written = @ \cup {BackfillVersion(d.id, e.current_version_no,
                                                                  backfill.version_no)}]
       ELSE /\ backfill' = [next_in_page(backfill) EXCEPT
                              !.visited = @ \cup {d.id}, !.skipped = @ + 1,
                              !.rule_out = rule_out,
                              !.applied = @ \cup {Applied(backfill.ruleset, backfill.version_no,
                                                          d.id, rule_out)}]
            /\ UNCHANGED <<docs, audit, tagRows>>
    /\ UNCHANGED <<now, reqs, jobs, events, nextDoc, files, blobs, puts, temps, tempBytes,
                   nextPath, queue, workers, op, tokens, faultsUsed, opsUsed,
                   searchVars, catalogVars, rulesVars, tokenVars, requestVars, pureVars, httpVars, taxonomyVars, brokerVars>>

\* the except branch of the loop body, lines 227-231: a statement of the
\* pass fails, the pass is rolled back and counted as failed.
BackfillFail(d) ==
    /\ backfill.pc = "run"
    /\ d \in docs
    /\ d.id = Head(backfill.page)
    /\ faultsUsed < MaxFaults
    /\ faultsUsed' = faultsUsed + 1
    /\ backfill' = [next_in_page(backfill) EXCEPT !.visited = @ \cup {d.id}, !.failed = @ + 1]
    /\ UNCHANGED <<now, reqs, jobs, events, docs, audit, nextDoc, files, blobs, puts, temps,
                   tempBytes, nextPath, queue, workers, op, tokens, opsUsed,
                   searchVars, catalogVars, rulesVars, tokenVars, requestVars, pureVars, httpVars, tagVars, taxonomyVars, brokerVars>>

\* enqueue_document_index_sync_many: one task for one id, a batch task for more
enqueue_document_index_sync_many(q, ids) ==
    IF ~is_sync_enabled \/ ids = {} THEN q
    ELSE IF Cardinality(ids) = 1 THEN delay(q, SearchTask("sync", CHOOSE d \in ids : TRUE))
    ELSE delay(q, [kind |-> "sync_batch", docs |-> ids])

\* process_backfill_payload after the loop: the BACKFILL_DONE row and the
\* search tasks of the updated documents.
BackfillDone ==
    /\ backfill.pc = "done"
    /\ backfill' = [backfill EXCEPT !.pc = "idle"]
    /\ audit' = AddAudit(audit, "BACKFILL_DONE", backfill.version_no)
    /\ searchQueue' = enqueue_document_index_sync_many(searchQueue, backfill.updated_doc_ids)
    /\ UNCHANGED <<IngestVars, indexVars, catalogVars, rulesVars, tokenVars, requestVars, pureVars, httpVars, tagVars, taxonomyVars, brokerVars>>

\* ------------------------------------------------------ search index tasks
\* _build_documents_payload: one payload per requested id that has a
\* Document row.
build_documents_payload(ds, ids) == ids \cap DocIds(ds)

\* sync_document_index_task, upsert_documents up to the built payloads: the
\* task reads the Document rows in its own session.
SyncRead(w, t) ==
    /\ searchWorkers[w].pc = "idle"
    /\ t \in BagToSet(searchQueue)
    /\ t.kind = "sync"
    /\ searchQueue' = searchQueue (-) SetToBag({t})
    /\ searchWorkers' =
         [searchWorkers EXCEPT ![w] =
            IF search_backend # "meili" THEN IdleSearch
            ELSE [pc |-> "upsert", doc |-> t.doc,
                  payloads |-> build_documents_payload(docs, {t.doc})]]
    /\ UNCHANGED <<IngestVars, audit, restVars, search_backend, index>>

\* sync_document_index_task, the request to Meilisearch: POST of the
\* payloads, or DELETE of the record when no payload was built.
SyncWrite(w) ==
    /\ searchWorkers[w].pc = "upsert"
    /\ index' = IF searchWorkers[w].payloads = {}
                THEN index \ {searchWorkers[w].doc}
                ELSE index \cup searchWorkers[w].payloads
    /\ searchWorkers' = [searchWorkers EXCEPT ![w] = IdleSearch]
    /\ UNCHANGED <<IngestVars, audit, restVars, search_backend, searchQueue>>

\* delete_document_index_task
DeleteIndexTask(w, t) ==
    /\ searchWorkers[w].pc = "idle"
    /\ t \in BagToSet(searchQueue)
    /\ t.kind = "delete"
    /\ searchQueue' = searchQueue (-) SetToBag({t})
    /\ index' = IF search_backend # "meili" THEN index ELSE index \ {t.doc}
    /\ UNCHANGED <<IngestVars, audit, restVars, search_backend, searchWorkers>>

\* ------------------------------------------------------------ specification
\* source_ref values are named in order of first use.
UsedRefs == {reqs[r].ref : r \in Reqs} \cap Refs
RefChoices == UsedRefs \cup {ref \in Refs \ UsedRefs : \A x \in Refs \ UsedRefs : ref <= x}

Upload ==
    \E r \in Reqs, bytes \in Contents :
        \/ \E ref \in RefChoices : IngestUpload(r, "telegram", ref, bytes)
        \/ IngestUpload(r, "manual", NULL, bytes)

Handler == \E r \in Reqs : QueueInsert(r) \/ QueueEvent(r) \/ QueueDelay(r)

\* the steps of a worker inside a task
Steps(w) ==
    \/ StoreFile(w) \/ FileInsert(w) \/ SetStored(w)
    \/ Extract(w) \/ SetExtracted(w) \/ Classify(w)
    \/ DocInsert(w) \/ TagSelect(w) \/ TagCommit(w) \/ DocLinks(w) \/ SetDocumentId(w) \/ SetIndexed(w)
    \/ SetFinal(w) \/ Notify(w)
    \/ FailRecord(w) \/ FailState(w) \/ AfterFail(w) \/ RetryEnqueue(w)

PipelineOf(ws) ==
    \E w \in ws :
        \/ \E t \in BagToSet(queue) : BeginAttempt(w, t)
        \/ Steps(w)

Pipeline == PipelineOf(Workers)

Operator ==
    \/ OpsLeft /\ \E j \in JobIds, a \in Actions :
                      \E t \in IssuedTokens(j, a), req \in IngestActionRequest :
                          ActionEndpoint(j, a, t, now, req)
    \/ Respond
    \/ \E j \in JobIds, r \in BOOLEAN, c \in BOOLEAN, f \in BOOLEAN : AdminRequeue(j, r, c, f)
    \/ \E j \in JobIds, b \in Contents, r \in BOOLEAN, c \in BOOLEAN : RecoverUpload(j, b, r, c)
    \/ OpEnqueue
    \/ \E d \in docs : DeleteDocument(d)
    \/ DeleteDocumentCommit

\* the catalog editing endpoints
Catalog ==
    \/ \E rs \in ReviewStatus : CreateManualPost(rs)
    \/ \E d \in docs, rs \in ReviewStatus \cup {"unset"} : PatchDocument(d, rs)
    \/ \E d \in docs, c \in BOOLEAN, rm \in SUBSET {"DUPLICATE_SUSPECT"}, a \in BOOLEAN :
          ReviewUpdate(d, c, rm, a)
    \/ \E d \in docs, ups \in Uploads : AddDocumentFiles(d, ups)
    \/ \E d \in docs, c \in EditContents : DeleteDocumentFile(d, c)
    \/ DeleteFileCommit
    \/ \E d \in docs, c \in EditContents, b \in EditContents : ReplaceDocumentFile(d, c, b)
    \/ ReplaceFileCommit
    \/ \E d \in docs : DeleteDocument(d)
    \/ DeleteDocumentCommit

Delivery ==
    \/ \E w \in Workers : WorkerCrash(w)
    \/ \E j \in JobIds : Redeliver(j)

Environment == \E p \in temps : TempLost(p)

Next == Upload \/ Handler \/ Pipeline \/ Operator \/ Delivery \/ Environment

Spec == Init /\ [][Next]_vars

\* The system left to itself: uploads, the handlers, the worker and faults of
\* the environment, but no operator or producer intervention and no task
\* re-delivery.  Handlers run to completion and the worker keeps taking due
\* tasks (weak fairness of both).
NextAuto == Upload \/ Handler \/ Pipeline \/ Environment

SpecAuto == Init /\ [][NextAuto]_vars /\ WF_vars(Handler) /\ WF_vars(Pipeline)

\* The system left to itself with two worker processes taking tasks.
NextPair == Upload \/ Handler \/ PipelineOf(WorkerPair) \/ Environment

SpecPair == Init /\ [][NextPair]_vars

\* The rules administration endpoints, with concurrent requests.
NextRules ==
    \/ \E rs \in Rulesets : CreateRuleset(rs) \/ CreateRuleVersion(rs)
    \/ \E rs \in Rulesets, n \in 1..MaxVersions, act \in BOOLEAN : ImportRules(rs, n, act)
    \/ \E a \in Admins, rv \in ruleVersions : ActivateLoad(a, rv)
    \/ \E a \in Admins : ActivateCommit(a)

SpecRules == Init /\ [][NextRules]_vars

\* The OpenClaw producer calling the action endpoints with the body of the
\* callback; an altered call is the first call made.
Producer ==
    \E c \in Offered \cup (IF actionsUsed = 0 THEN Altered ELSE {}), at \in Instants :
        ActionEndpoint(c.job, c.action, c.token, at, CallbackRequest(c.action))

\* one call, within the budget of interventions
Call == OpsLeft /\ Producer

NextAction == Upload \/ Handler \/ Pipeline \/ Call \/ OpEnqueue \/ Respond \/ Environment

SpecAction == Init /\ [][NextAction]_vars

\* One telegram upload, the producer calling up to MaxActions times, and two
\* worker processes, observed for the delay of the first automatic retry:
\* a scheduled retry stays pending in the queue.
FirstUpload ==
    \E bytes \in Contents, ref \in RefChoices : IngestUpload(1, "telegram", ref, bytes)

Horizon == RetryBaseSeconds

Attempts ==
    \E w \in WorkerPair :
        \/ \E t \in BagToSet(queue) : t.eta < Horizon /\ BeginAttempt(w, t)
        \/ Steps(w)

NextReplay == FirstUpload \/ Handler \/ Attempts \/ Producer \/ OpEnqueue \/ Respond

SpecReplay == Init /\ [][NextReplay]_vars

\* issue_action_token and verify_action_token on drawn inputs.
NextToken ==
    \/ \E j \in JobIds, a \in Actions, t \in 0..MaxTick, ttl \in 1..MaxTtl : IssueToken(j, a, t, ttl)
    \/ \E k \in TamperKinds, j \in JobIds, a \in Actions, t \in 0..MaxTick : VerifyToken(k, j, a, t)

SpecToken == Init /\ [][NextToken]_vars

\* The ingest pipeline together with the catalog editing endpoints.
NextCatalog == Upload \/ Handler \/ Pipeline \/ Catalog

SpecCatalog == Init /\ [][NextCatalog]_vars

\* The catalog editing endpoints on documents without an ingest job and the
\* workers of the search queue, in a deployment with SEARCH_BACKEND=meili.
SearchTasks ==
    \/ \E w \in SearchWorkers, t \in BagToSet(searchQueue) : SyncRead(w, t)
    \/ \E w \in SearchWorkers : SyncWrite(w)
    \/ \E w \in SearchWorkers, t \in BagToSet(searchQueue) : DeleteIndexTask(w, t)

Posts ==
    \/ \E rs \in ReviewStatus : CreateManualPost(rs)
    \/ \E d \in docs, rs \in ReviewStatus \cup {"unset"} : PatchDocument(d, rs)
    \/ \E d \in docs, c \in BOOLEAN, rm \in SUBSET {"DUPLICATE_SUSPECT"}, a \in BOOLEAN :
          ReviewUpdate(d, c, rm, a)
    \/ \E d \in docs, ups \in Uploads : AddDocumentFiles(d, ups)
    \/ \E d \in docs : DeleteDocument(d)
    \/ DeleteDocumentCommit

NextSearch == Posts \/ SearchTasks

SpecSearch == InitMeili /\ [][NextSearch]_vars /\ WF_vars(SearchTasks)

\* The backfill task with the rules administration and the endpoints that
\* create and review documents.
Backfill ==
    \/ \E rs \in Rulesets, no \in 1..MaxVersions, filter \in Filters, batch_size \in 1..MaxBatchSize :
          BackfillStart(rs, no, filter, batch_size)
    \/ BackfillFetch
    \/ \E d \in docs, rule_out \in RuleOutputs : BackfillVisit(d, rule_out)
    \/ \E d \in docs : BackfillFail(d)
    \/ BackfillDone

NextBackfill ==
    \/ \E rs \in Rulesets : CreateRuleset(rs) \/ CreateRuleVersion(rs)
    \/ \E rv \in ReviewStatus : CreateManualPost(rv)
    \/ \E d \in docs, c \in BOOLEAN, rm \in SUBSET {"DUPLICATE_SUSPECT"}, a \in BOOLEAN :
          ReviewUpdate(d, c, rm, a)
    \/ Backfill

SpecBackfill == Init /\ [][NextBackfill]_vars

\* apply_rules applied once to a caption, texts and rules drawn from the
\* sets above.
NextRuleEngine == \E ctx \in RuleInputs, rules \in RulesValues : ApplyRules(ctx, rules)

SpecRuleEngine == Init /\ [][NextRuleEngine]_vars

\* Two callers upsert a category or a tag, each through one of the three
\* implementations.
NextTaxonomy ==
    \/ \E c \in Callers, impl \in Impls, table \in Tables, name \in UpsertNames :
          UpsertSelect(c, impl, table, name)
    \/ \E c \in Callers : UpsertInsert(c) \/ UpsertCommit(c)

SpecTaxonomy == Init /\ [][NextTaxonomy]_vars

\* One upload and its attempts, the catalog editing endpoints and a
\* backfill run in a deployment with SEARCH_BACKEND=meili whose broker goes
\* down and comes back.
Outage == \E state \in {"up", "down"} : BrokerFlip(state)

NoFilter == [category |-> "", from |-> NULL, to |-> NULL, review_only |-> FALSE]

Recategorized == {out \in RuleOutputs : out.event_date = NULL /\ out.tags = {}}

BrokerBackfill ==
    \/ BackfillStart(1, 1, NoFilter, MaxBatchSize)
    \/ BackfillFetch
    \/ \E d \in docs, rule_out \in Recategorized : BackfillVisit(d, rule_out)
    \/ BackfillDone

\* SEARCH_BACKEND=meili after ruleset 1 and its version 1 were created
InitRuled ==
    /\ StartWith([rs \in Rulesets |-> IF rs = 1 THEN [NoRuleset EXCEPT !.exists = TRUE]
                                      ELSE NoRuleset],
                 {RuleVersion(1, 1, FALSE)},
                 AddAudit(AddAudit(EmptyBag, "RULESET_CREATE", 1), "RULE_VERSION_CREATE", <<1, 1>>),
                 2)
    /\ search_backend = "meili"

\* the upload handler reaches its enqueue while the broker is down
Rejected == \E r \in Reqs : QueueDelayRejected(r)

NextBroker ==
    FirstUpload \/ Handler \/ Rejected \/ Pipeline \/ Catalog \/ Outage \/ BrokerBackfill

SpecBroker == InitRuled /\ [][NextBroker]_vars

\* One upload and its attempts while the broker goes down and comes back and
\* the web process may die inside the upload handler.
Crashed == \E r \in Reqs : HandlerCrash(r)

NextAccept == FirstUpload \/ Handler \/ Pipeline \/ Outage \/ Rejected \/ Crashed

SpecAccept == Init /\ [][NextAccept]_vars

\* One upload processed to its end, then the backfill task run twice with
\* the same rule version and the same (empty) filter; nothing else happens
\* once the first run has started.
UploadSettled ==
    /\ reqs[1].pc = "done"
    /\ queue = EmptyBag
    /\ \A w \in Workers : workers[w].pc = "idle"

RerunStart(batch_size) ==
    /\ UploadSettled
    /\ BackfillStartWithin(MaxReruns, 1, 1, NoFilter, batch_size)

Rerun ==
    \/ \E batch_size \in 1..MaxBatchSize : RerunStart(batch_size)
    \/ BackfillFetch
    \/ \E d \in docs, rule_out \in RuleOutputs : BackfillVisit(d, rule_out)
    \/ BackfillDone

NextRerun == FirstUpload \/ Handler \/ Pipeline \/ Rerun

SpecRerun == InitRuled /\ [][NextRerun]_vars

\* compute_backoff_seconds applied once to drawn arguments.
NextBackoff ==
    \E a \in 1..MaxAttemptCount, b \in 1..MaxBaseSeconds, m \in 1..MaxMaxSeconds :
       ComputeBackoff(a, b, m)

SpecBackoff == Init /\ [][NextBackoff]_vars

\* The API behind read_only_middleware with the setting changed between
\* requests, and the worker.
Requests == \E method \in Methods, path \in Paths : HttpRequest(method, path)

\* POST /ingest/telegram behind the middleware
TelegramUpload ==
    /\ ~read_only_blocks(read_only_mode, "POST", TelegramPath)
    /\ FirstUpload

Restart == \E mode \in BOOLEAN : SetReadOnlyMode(mode)

NextReadOnly == TelegramUpload \/ Handler \/ Pipeline \/ Requests \/ Restart

SpecReadOnly == Init /\ [][NextReadOnly]_vars

\* One upload and its attempts, with faults of the environment and with the
\* failure callback delivered or not, next to classify_exception_for_stage
\* applied to drawn arguments.
Classification == \E exc \in Exceptions, stage \in StageNames : ClassifyException(exc, stage)

Unnotified == \E w \in Workers : FailStateUnnotified(w)

NextFail == FirstUpload \/ Handler \/ Pipeline \/ Unnotified \/ Environment \/ Classification

SpecFail == Init /\ [][NextFail]_vars

\* ------------------------------------------------------------------ claims
\* C1: in every reachable state a job in PUBLISHED, NEEDS_REVIEW or FAILED
\* has finished_at set, and a job in RECEIVED, STORED, EXTRACTED, CLASSIFIED
\* or INDEXED has finished_at = NULL.
C1_FinishedIffTerminal ==
    \A j \in JobIds :
        jobs[j].exists =>
            ((jobs[j].state \in TerminalStates) <=> (jobs[j].finished_at # NULL))

\* C6: a worker that takes the processing task of a job already in PUBLISHED
\* or NEEDS_REVIEW (a re-delivered task) leaves the job's state,
\* attempt_count and finished_at and the documents unchanged.
C6_RedeliveryIsNoOp ==
    [][\A w \in Workers :
          (/\ workers[w].pc = "idle"
           /\ workers'[w].pc = "store"
           /\ jobs[workers'[w].job].state \in {"PUBLISHED", "NEEDS_REVIEW"})
          => LET j == workers'[w].job IN
             /\ jobs'[j].state = jobs[j].state
             /\ jobs'[j].attempt_count = jobs[j].attempt_count
             /\ jobs'[j].finished_at = jobs[j].finished_at
             /\ docs' = docs]_vars

\* C7: every job row has at least one event, and its most recent event has
\* to_state equal to the job's current state.
C7_LastEventIsState ==
    \A j \in JobIds :
        jobs[j].exists =>
            /\ HasEvents(events[j])
            /\ events[j].last.to_state = jobs[j].state

\* C9: document_id is non-null exactly when the job's events contain a
\* transition to INDEXED.
C9_DocumentIdIffIndexed ==
    \A j \in JobIds :
        jobs[j].exists =>
            ((jobs[j].document_id # NULL) <=> ("INDEXED" \in events[j].tos))

\* C5: over all attempts of a job at most one Document is created for it.
C5_OneDocumentPerJob ==
    \A j \in JobIds : Cardinality({d \in docs : d.job = j}) <= 1

\* The worker w takes the step that follows a failed attempt (the retry
\* decision of process_ingest_job_task) on its job.
RetryDecision(w) ==
    /\ workers[w].pc = "after_fail"
    /\ workers'[w] # workers[w]
    /\ opsUsed' = opsUsed

DeadLetterRow(j) == AuditRow("INGEST_JOB_DEAD_LETTER", j)

\* C2: when an attempt fails with attempt_count >= max_attempts
\* the job ends in FAILED with last_error_code = DLQ_MAX_ATTEMPTS, one
\* DEAD_LETTER event is appended and one INGEST_JOB_DEAD_LETTER audit row is
\* written.
C2_DeadLetterSetsDlqCode ==
    [][\A w \in Workers :
          LET j == workers[w].job IN
          (RetryDecision(w) /\ jobs[j].attempt_count >= jobs[j].max_attempts)
          => /\ jobs'[j].state = "FAILED"
             /\ jobs'[j].last_error_code = "DLQ_MAX_ATTEMPTS"
             /\ events'[j].last.event_type = "DEAD_LETTER"
             /\ events'[j].count["DEAD_LETTER"] = events[j].count["DEAD_LETTER"] + 1
             /\ CopiesIn(DeadLetterRow(j), audit') = CopiesIn(DeadLetterRow(j), audit) + 1]_vars

\* min(base * 2^(attempt - 1), max) with the configured base and maximum
ExpectedBackoff(attempt) ==
    Min(RetryBaseSeconds * (2 ^ (attempt - 1)), RetryMaxSeconds)

QueuedFor(j) == \E t \in BagToSet(queue) : t.job = j

\* The job is in a terminal state and nothing is left that would process it.
Settled(j) ==
    /\ jobs[j].exists
    /\ jobs[j].state \in TerminalStates
    /\ ~QueuedFor(j)
    /\ \A w \in Workers : workers[w].pc = "idle" \/ workers[w].job # j

AttemptRange == (0 - 1)..(DefaultMaxAttempts + 1)

IsPrefix(s, t) == Len(s) <= Len(t) /\ \A i \in 1..Len(s) : s[i] = t[i]

\* The states one attempt may commit, in order, given its review reasons.
AttemptOrder(review_reasons) ==
    <<"STORED", "EXTRACTED", "CLASSIFIED", "INDEXED",
      IF review_reasons # <<>> THEN "NEEDS_REVIEW" ELSE "PUBLISHED">>

OrderedTrace(wk) ==
    LET n == Len(wk.trace)
        failed == n > 0 /\ wk.trace[n] = "FAILED"
        body == IF failed THEN SubSeq(wk.trace, 1, n - 1) ELSE wk.trace
    IN  IsPrefix(body, AttemptOrder(wk.reasons))

\* C8: the states one worker attempt commits form a prefix of STORED,
\* EXTRACTED, CLASSIFIED, INDEXED followed by NEEDS_REVIEW when the review
\* reasons are non-empty and by PUBLISHED otherwise, optionally ended by one
\* FAILED; every state change the attempt commits is one of these, each
\* committed together with an event to that state.
C8_AttemptStateOrder ==
    [][\A w \in Workers :
          LET j == workers'[w].job IN
          /\ OrderedTrace(workers'[w])
          /\ (workers'[w].trace # workers[w].trace /\ workers'[w].pc # "idle")
             => /\ workers'[w].trace = Append(workers[w].trace, jobs'[j].state)
                /\ events'[j].last.to_state = jobs'[j].state
                /\ events'[j].last.from_state = jobs[j].state
          /\ (/\ workers[w].pc \notin {"idle", "after_fail", "retry_enqueue"}
              /\ workers'[w] # workers[w]
              /\ opsUsed' = opsUsed
              /\ jobs'[workers[w].job].state # jobs[workers[w].job].state)
             => workers'[w].trace # workers[w].trace]_vars

\* an attempt on a RECEIVED job went through every stage and ended in
\* NEEDS_REVIEW because of its review reasons
C8_Witness ==
    \E w \in Workers :
        /\ workers[w].start = "RECEIVED"
        /\ workers[w].reasons # <<>>
        /\ workers[w].trace = <<"STORED", "EXTRACTED", "CLASSIFIED", "INDEXED", "NEEDS_REVIEW">>

TelegramJobsWithRef(ref) ==
    {j \in JobIds : jobs[j].exists /\ jobs[j].source = "telegram" /\ jobs[j].source_ref = ref}

LinkedDocPairs ==
    {pair \in docs \X docs :
        /\ pair[1].job # pair[2].job
        /\ pair[1].id < pair[2].id
        /\ pair[1].links # {} /\ pair[2].links # {}}

HasReason(d, reason) == \E i \in 1..Len(d.review_reasons) : d.review_reasons[i] = reason

\* C11: when jobs with byte-identical payloads are processed by two workers
\* in any interleaving, the backend receives exactly one blob write, the
\* Documents of the jobs link the same File, and the Document created second
\* carries DUPLICATE_SUSPECT.
C11_ConcurrentDedupe ==
    /\ puts <= 1
    /\ \A pair \in LinkedDocPairs :
          /\ {l.file : l \in pair[1].links} = {l.file : l \in pair[2].links}
          /\ HasReason(pair[2], "DUPLICATE_SUSPECT")

\* C12: a _store_file call for bytes whose File row exists returns that File
\* and writes nothing: no backend write, File rows and DocumentFile links
\* unchanged; a call for new bytes performs one backend write; an insert of
\* a second File row with an existing checksum is refused.
C12_StoreIsIdempotent ==
    [][\A w \in Workers :
          /\ (/\ workers[w].pc = "store"
              /\ workers'[w].pc \notin {"store", "idle"}
              /\ jobs[workers[w].job].file_path_temp \in temps)
             => LET c == tempBytes[jobs[workers[w].job].file_path_temp] IN
                /\ files' = files /\ docs' = docs
                /\ IF c \in files
                   THEN /\ workers'[w].pc = "set_stored"
                        /\ workers'[w].file = c
                        /\ puts' = puts /\ blobs' = blobs
                   ELSE puts' <= puts + 1
          /\ (/\ workers[w].pc = "file_insert"
              /\ workers'[w].pc \notin {"file_insert", "idle"}
              /\ workers[w].file \in files)
             => files' = files /\ workers'[w].pc = "fail_record"]_vars

\* the second of two jobs with the same bytes has got the File of the first
C12_Witness ==
    \E w \in Workers :
        /\ workers[w].pc = "set_stored"
        /\ workers[w].file \in files
        /\ workers[w].dup
        /\ puts = 1
        /\ \E d \in docs : d.job # workers[w].job /\ \E l \in d.links : l.file = workers[w].file

\* Documents that no worker is in the middle of creating (_create_document
\* between its two commits)
SettledDocs ==
    {d \in docs : \A w \in WorkerPair :
        ~(workers[w].pc \in {"tag_select", "tag_commit", "doc_links"} /\ workers[w].doc = d.id)}

\* C13: every Document, once no _create_document call is between its two
\* commits for it, has at least one DocumentVersion, and current_version_no
\* is the largest version_no among them; also after a crash or failure
\* between the two commits.
C13_VersionHistory ==
    \A d \in SettledDocs :
        /\ d.versions # {}
        /\ \A v \in d.versions : v <= d.current_version_no
        /\ d.current_version_no \in d.versions

\* C14: a Document has review_status NEEDS_REVIEW exactly when its
\* review_reasons is non-empty.
C14_ReviewStatusIffReasons ==
    \A d \in docs : (d.review_status = "NEEDS_REVIEW") <=> (d.review_reasons # <<>>)

\* C15: every Document with at least one DocumentFile link has exactly one
\* link with is_primary set, and at most one link to any File.
C15_OnePrimaryLink ==
    \A d \in docs :
        /\ d.links # {} => Cardinality({l \in d.links : l.is_primary}) = 1
        /\ \A l1 \in d.links, l2 \in d.links : l1.file = l2.file => l1 = l2

\* the DocumentFile rows that the open catalog transaction has deleted
PendingDelete(d, l) ==
    /\ edit.doc = d.id
    /\ \/ edit.kind = "delete_document"
       \/ edit.kind \in {"delete_file", "replace_file"} /\ l.file = edit.file

\* C16: every committed DocumentFile row, unless the open delete or replace
\* transaction has deleted it, refers to an existing File row whose backend
\* object exists, in every interleaving of the catalog handlers with an
\* ingest attempt.
C16_LinkedFilesExist ==
    \A d \in docs : \A l \in d.links :
        ~PendingDelete(d, l) => l.file \in files /\ l.file \in blobs

\* C17: at most one RuleVersion of a ruleset is active, also when two
\* activate_rule_version requests for different versions run concurrently.
C17_OneActiveVersion ==
    \A rs \in Rulesets :
        Cardinality({rv \in VersionsOf(ruleVersions, rs) : rv.is_active}) <= 1

\* the two parts of a token decode to the same bytes as those of another
SameBytes(t1, t2) ==
    /\ Len(t1) = 2 /\ Len(t2) = 2
    /\ \A i \in 1..2 : t1[i].text # "malformed" /\ t2[i].text # "malformed"
                        /\ t1[i].bytes = t2[i].bytes

\* C18 as stated: verification of an issued token succeeds exactly when job
\* and action are those of the issue and now <= expires_at, and every token
\* whose payload part or signature part differs from the issued one is
\* rejected.
C18_TokenLawExact ==
    tokenCheck.stage = "verified" =>
        IF tokenCheck.presented = tokenCheck.issued.token
        THEN (tokenCheck.result = "ok") <=>
                /\ tokenCheck.for_job = tokenCheck.job_id
                /\ tokenCheck.for_action = tokenCheck.action
                /\ tokenCheck.now <= tokenCheck.issued.expires_at
        ELSE tokenCheck.result # "ok"

\* C18: verification succeeds exactly when the presented token decodes to
\* the payload bytes and signature bytes of the issued one, job and action
\* are those of the issue, and now, cut to whole seconds, is at most exp.
C18_TokenLaw ==
    tokenCheck.stage = "verified" =>
        ((tokenCheck.result = "ok") <=>
            /\ SameBytes(tokenCheck.presented, tokenCheck.issued.token)
            /\ tokenCheck.for_job = tokenCheck.job_id
            /\ tokenCheck.for_action = tokenCheck.action
            /\ tokenCheck.now \div TicksPerSecond <= tokenCheck.issued.expires_at \div TicksPerSecond)

\* the issued token is accepted at the instant expires_at
C18_Witness ==
    /\ tokenCheck.stage = "verified"
    /\ tokenCheck.presented = tokenCheck.issued.token
    /\ tokenCheck.now = tokenCheck.issued.expires_at
    /\ tokenCheck.result = "ok"

\* the call carries a token of a callback for this job and action (or
\* another text of the same bytes) and arrives before the token's expiry
ValidCall(r) ==
    \E t \in tokens :
        /\ t.job = r.job
        /\ SameBytes(r.token, CallbackToken(t, r.action))
        /\ r.at <= t.exp

AttemptStages ==
    {"store", "file_insert", "set_stored", "extract", "set_extracted", "classify",
     "doc_insert", "tag_select", "tag_commit", "doc_links", "set_doc_id", "set_indexed", "set_final", "notify"}

\* C20: however often the producer presents the valid token of a job, also
\* while an automatic retry of the job is pending, no two workers are inside
\* process_ingest_job for the same job at the same time and the job has at
\* most one Document.
C20_ReplayIsIdempotent ==
    /\ \A w1 \in DOMAIN workers, w2 \in DOMAIN workers :
          (w1 # w2 /\ workers[w1].pc \in AttemptStages /\ workers[w2].pc \in AttemptStages)
              => workers[w1].job # workers[w2].job
    /\ \A j \in JobIds : Cardinality({d \in docs : d.job = j}) <= 1

\* every task of the search queue has completed
SearchSettled ==
    /\ searchQueue = EmptyBag
    /\ \A w \in SearchWorkers : searchWorkers[w].pc = "idle"
    /\ edit = NoEdit

\* C21: once every enqueued sync and delete task has completed, the search
\* index holds a record for a document id exactly when the catalog holds
\* that Document.
C21_IndexMatchesCatalog ==
    SearchSettled => index = DocIds(docs)

\* the step is the visit of document d by the backfill run
BackfillVisits(d) ==
    /\ backfill.pc = "run"
    /\ d.id = Head(backfill.page)
    /\ backfill'.failed = backfill.failed
    /\ backfill'.updated + backfill'.skipped = backfill.updated + backfill.skipped + 1

\* one of the four outputs recomputed for d differs from its current value
OutputDiffers(d, rule_out) ==
    \/ d.category # rule_out.category
    \/ d.event_date # rule_out.event_date
    \/ d.tags # rule_out.tags
    \/ Range(d.review_reasons) # Range(new_review_reasons(d, rule_out))

\* C22: a document visited by a backfill run is changed and gets a new
\* DocumentVersion with change_reason backfill_rule_vN exactly when one of
\* its four recomputed outputs differs; otherwise it is counted as skipped
\* and keeps its review_status and current_version_no.
C22_BackfillFrame ==
    [][\A d \in docs :
         BackfillVisits(d) =>
           LET e == DocById(docs', d.id)
               rule_out == backfill'.rule_out
               wrote == BackfillVersion(d.id, d.current_version_no + 1, backfill.version_no)
                          \in backfill'.written
           IN  IF OutputDiffers(d, rule_out)
               THEN /\ e.category = rule_out.category
                    /\ e.event_date = rule_out.event_date
                    /\ e.tags = rule_out.tags
                    /\ e.review_reasons = new_review_reasons(d, rule_out)
                    /\ e.current_version_no = d.current_version_no + 1
                    /\ wrote
               ELSE /\ e = d
                    /\ ~wrote
                    /\ backfill'.skipped = backfill.skipped + 1
      ]_vars

\* no entry of a sorted list comes before its predecessor
IsSorted(seq) == \A i \in 1..(Len(seq) - 1) : StrLess(seq[i], seq[i + 1])

\* C23: apply_rules gives equal results for equal arguments, and the tags it
\* returns are in sorted order without two entries of the same slug.
C23_TagsSortedUnique ==
    ruleCall.stage = "done" /\ ~ruleCall.out.raised =>
      LET tags == ruleCall.out.tags IN
      /\ ruleCall.out = apply_rules(ruleCall.ctx, ruleCall.rules)
      /\ IsSorted(tags)
      /\ \A i, k \in 1..Len(tags) : slugify(tags[i]) = slugify(tags[k]) => i = k

\* the caption's explicit category is not in the allowed set of the rules
ExplicitRejected(ctx, rules) ==
    /\ ctx.explicit_category # <<>>
    /\ ~HasKey(allowed_category_map(rules), normalize_tag_key(strip(ctx.explicit_category)))

\* C24: with an explicit category outside the ruleset, apply_rules returns
\* default_category and the reason CATEGORY_OUT_OF_RULESET.
C24_RejectedCategoryFallsBack ==
    /\ ruleCall.stage = "done"
    /\ ~ruleCall.out.raised
    /\ ExplicitRejected(ruleCall.ctx, ruleCall.rules)
    => /\ ruleCall.out.category = default_category_of(ruleCall.rules)
       /\ "CATEGORY_OUT_OF_RULESET" \in Range(ruleCall.out.review_reasons)

\* C25: apply_rules returns a RuleOutput for every rules value.
C25_NeverRaises ==
    ruleCall.stage = "done" => ~ruleCall.out.raised

\* C26 as stated: for attempt >= 1 and positive base and max the delay is
\* min(base * 2^(attempt-1), max), never more than max, and does not
\* decrease with the attempt.
C26_BackoffLawExact ==
    backoffCall.stage = "done" =>
      /\ backoffCall.delay =
           Min(backoffCall.base_seconds * 2 ^ (backoffCall.attempt_count - 1),
               backoffCall.max_seconds)
      /\ backoffCall.delay <= backoffCall.max_seconds
      /\ backoffCall.delay <= backoffCall.next_delay

\* C26: for attempt >= 1 and positive base <= max the delay is
\* min(base * 2^(attempt-1), max) and never more than max; with max < base
\* the delay is base; the delay does not decrease with the attempt.
C26_BackoffLaw ==
    backoffCall.stage = "done" =>
      /\ backoffCall.base_seconds <= backoffCall.max_seconds =>
           /\ backoffCall.delay =
                Min(backoffCall.base_seconds * 2 ^ (backoffCall.attempt_count - 1),
                    backoffCall.max_seconds)
           /\ backoffCall.delay <= backoffCall.max_seconds
      /\ backoffCall.max_seconds < backoffCall.base_seconds =>
           backoffCall.delay = backoffCall.base_seconds
      /\ backoffCall.delay <= backoffCall.next_delay

\* a call whose exponential delay is cut to max, after one that was not
C26_Witness ==
    /\ backoffCall.stage = "done"
    /\ backoffCall.attempt_count >= 3
    /\ backoffCall.base_seconds < backoffCall.max_seconds
    /\ backoffCall.delay = backoffCall.base_seconds * 2 ^ (backoffCall.attempt_count - 1)
    /\ backoffCall.delay < backoffCall.max_seconds
    /\ backoffCall.next_delay = backoffCall.max_seconds

\* a request the read-only mode is to reject
MustReject(h) ==
    /\ h.read_only_mode
    /\ startswith(h.path, api_prefix)
    /\ upper(h.method) \notin {"GET", "HEAD", "OPTIONS"}
    /\ h.path \notin {LoginPath, LogoutPath}

\* C27: in read-only mode a request under the API prefix whose method is
\* not GET, HEAD or OPTIONS is answered 503 without reaching a handler,
\* unless its path is the login or the logout path; with the mode off no
\* request is intercepted; upload handlers start only when the middleware
\* lets them, and the worker takes every due task in either mode.
C27_ReadOnlyMode ==
    [][ /\ (http' # http) =>
             /\ MustReject(http') => (http'.status = 503 /\ ~http'.call_next)
             /\ (~read_only_mode) => (http'.call_next /\ http'.status # 503)
             /\ (http'.path \in {LoginPath, LogoutPath}) => http'.call_next
             /\ reqs' = reqs
        /\ (read_only_mode /\ read_only_mode') =>
              \A r \in Reqs : reqs[r].pc = "new" => reqs'[r].pc = "new"
        /\ \A w \in Workers, t \in BagToSet(queue) :
              (workers[w].pc = "idle" /\ jobs[t.job].exists) => ENABLED BeginAttempt(w, t)
      ]_vars

\* a POST of an upload has been answered 503 and, with the API still in
\* read-only mode, a task of an earlier upload waits for the idle worker
C27_Witness ==
    /\ read_only_mode
    /\ http.stage = "done" /\ http.read_only_mode /\ http.method = "POST"
    /\ http.path = TelegramPath /\ http.status = 503
    /\ \E t \in BagToSet(queue) : jobs[t.job].exists /\ jobs[t.job].state = "RECEIVED"
    /\ \A w \in Workers : workers[w].pc = "idle"

\* C28: when a job reaches PUBLISHED, NEEDS_REVIEW or the dead-lettered
\* FAILED its temp file no longer exists, and when a recovery gives the job
\* a new upload the temp file it named before no longer exists.
C28_TempFilesRemoved ==
    [][\A j \in JobIds :
          /\ (/\ jobs[j].exists
              /\ jobs'[j].state # jobs[j].state
              /\ \/ jobs'[j].state \in {"PUBLISHED", "NEEDS_REVIEW"}
                 \/ jobs'[j].state = "FAILED" /\ jobs'[j].last_error_code = "DLQ_MAX_ATTEMPTS")
               => jobs'[j].file_path_temp \notin temps'
          /\ (jobs[j].exists /\ jobs'[j].file_path_temp # jobs[j].file_path_temp)
               => jobs[j].file_path_temp \notin temps'
      ]_vars

\* C29: once a job has reached INDEXED its Document has DocumentVersion 1,
\* exactly one DocumentFile link, primary and to the stored File, and one
\* DocumentTag per classified tag, also when two workers create Documents
\* with the same new tag at the same time.
C29_IndexedDocumentIsComplete ==
    \A w \in WorkerPair :
        workers[w].pc \in {"set_final", "notify"} =>
            \A d \in docs :
                d.id = jobs[workers[w].job].document_id =>
                    /\ d.versions = {1}
                    /\ d.links = {DocLink(workers[w].file, TRUE)}
                    /\ d.tags = IngestTags

\* the worker is in _fail_job, or after it, for a failed result callback
NotifyFailed(w) == workers[w].code = "NOTIFY_CALLBACK_FAIL" /\ workers[w].stage = "PUBLISHED"

\* C30: when the result callback fails after the job has reached PUBLISHED
\* or NEEDS_REVIEW, the job is moved to FAILED with last_error_code
\* NOTIFY_CALLBACK_FAIL and, if attempt_count < max_attempts, a retry is
\* scheduled and its task is queued, while the Document of the attempt stays
\* in the catalog.
C30_NotifyFailureRetries ==
    /\ [][\A w \in Workers :
            LET j == workers[w].job IN
            /\ (workers[w].pc = "notify" /\ workers'[w].pc = "fail_record") =>
                  /\ jobs[j].state \in {"PUBLISHED", "NEEDS_REVIEW"}
                  /\ NotifyFailed(w)'
                  /\ docs' = docs
            /\ (NotifyFailed(w) /\ workers[w].pc = "fail_state" /\ workers'[w] # workers[w]) =>
                  /\ jobs'[j].state = "FAILED"
                  /\ jobs'[j].last_error_code = "NOTIFY_CALLBACK_FAIL"
                  /\ docs' = docs
            /\ (/\ NotifyFailed(w) /\ workers[w].pc = "after_fail" /\ workers'[w] # workers[w]
                /\ jobs[j].attempt_count < jobs[j].max_attempts) =>
                  /\ jobs'[j].state = "RECEIVED"
                  /\ jobs'[j].retry_after # NULL
                  /\ jobs'[j].last_error_code = "NOTIFY_CALLBACK_FAIL"
                  /\ events'[j].last.event_type = "RETRY_SCHEDULED"
                  /\ workers'[w].pc = "retry_enqueue"
                  /\ docs' = docs
                  /\ workers[w].doc \in DocIds(docs')
       ]_vars
    /\ \A j \in JobIds :
          (\E w \in Workers :
              /\ NotifyFailed(w) /\ workers[w].pc = "fail_record" /\ workers[w].job = j
              /\ jobs[j].attempt_count < jobs[j].max_attempts)
          ~> (/\ jobs[j].exists
              /\ jobs[j].state = "RECEIVED"
              /\ QueuedFor(j)
              /\ \E d \in docs : d.job = j)

\* a retry of a job whose callback failed is queued and the Document of the
\* failed attempt is in the catalog
C30_Witness ==
    \E j \in JobIds :
        /\ jobs[j].exists
        /\ jobs[j].state = "RECEIVED"
        /\ jobs[j].last_error_code = "NOTIFY_CALLBACK_FAIL"
        /\ jobs[j].attempt_count = 1
        /\ events[j].last.event_type = "RETRY_SCHEDULED"
        /\ QueuedFor(j)
        /\ \E d \in docs : d.job = j /\ d.id = jobs[j].document_id

\* the code the claim names for an exception raised in a stage
ClaimedCode(exc, stage) ==
    CASE stage = "STORED" /\ exc = "FileNotFoundError" -> "STORAGE_TEMP_FILE_MISSING"
      [] stage = "STORED" /\ exc = "PermissionError" -> "STORAGE_READ_FAIL"
      [] stage = "STORED" /\ exc \notin {"FileNotFoundError", "PermissionError"} -> "STORAGE_WRITE_FAIL"
      [] stage = "EXTRACTED" -> "CAPTION_PARSE_FAIL"
      [] stage = "CLASSIFIED" -> "RULE_CLASSIFY_FAIL"
      [] stage = "INDEXED" -> "DB_WRITE_FAIL"
      [] stage = "PUBLISHED" -> "NOTIFY_CALLBACK_FAIL"
      [] OTHER -> "PIPELINE_UNEXPECTED"

\* the codes the claim allows for a failure in a stage
StageCodes(stage) == {ClaimedCode(exc, stage) : exc \in Exceptions}

MatchedAtStart ==
    {d.id : d \in {x \in backfill.at_start : filter_matches(x, backfill.filter)}}

\* since the run started the catalog was written by the run only: the
\* same documents, each as it was or one version after, updated by the run
OnlyBackfillWrote ==
    /\ DocIds(docs) = DocIds(backfill.at_start)
    /\ \A d \in docs :
         \/ d \in backfill.at_start
         \/ /\ d.id \in backfill.updated_doc_ids
            /\ d.current_version_no = DocById(backfill.at_start, d.id).current_version_no + 1

\* C32: a backfill run with a batch_size of at least 1 evaluates every
\* document its filter selected at the start exactly once: when the loop
\* has ended, the visited documents are the selected ones and
\* updated + skipped + failed is their number, also when an update changed
\* a filtered field.
C32_BackfillVisitsAllMatching ==
    (backfill.pc = "done" /\ OnlyBackfillWrote) =>
        /\ backfill.visited = MatchedAtStart
        /\ backfill.updated + backfill.skipped + backfill.failed = Cardinality(MatchedAtStart)

\* both callers have returned or raised, for the same table and slug
SameSlugCalls ==
    /\ \A c \in Callers : taxonomy.calls[c].pc \in {"done", "raised"}
    /\ taxonomy.calls["c1"].table = taxonomy.calls["c2"].table
    /\ taxonomy.calls["c1"].slug = taxonomy.calls["c2"].slug

\* C33: two concurrent upserts of a Category (or of a Tag) whose names have
\* the same slug leave exactly one row of that slug; neither call raises
\* and both return that row.
C33_UpsertRace ==
    SameSlugCalls =>
        LET call == taxonomy.calls["c1"]
            rows == select_by_slug(taxonomy.rows, call.table, call.slug)
        IN  /\ Cardinality(rows) = 1
            /\ \A c \in Callers : taxonomy.calls[c].pc = "done" /\ taxonomy.calls[c].got = rows

\* the search tasks sent by the step
SentTasks == BagToSet(searchQueue' (-) searchQueue)

\* the step is the commit of an API handler that changed the catalog
HandlerCommits ==
    /\ docs' # docs
    /\ workers' = workers
    /\ backfill' = backfill
    /\ edit' = NoEdit

\* the document the step created, changed or removed
Touched == {d.id : d \in docs' \ docs} \cup (DocIds(docs) \ DocIds(docs'))

\* the task the search index needs for document d after the step
TaskFor(d) == SearchTask(IF d \in DocIds(docs') THEN "sync" ELSE "delete", d)

\* the tasks of a finished backfill run
BackfillTasks(ids) ==
    IF ids = {} THEN EmptyBag
    ELSE IF Cardinality(ids) = 1 THEN SetToBag({SearchTask("sync", CHOOSE d \in ids : TRUE)})
    ELSE SetToBag({[kind |-> "sync_batch", docs |-> ids]})

\* the step is the INDEXED transition of worker w
Indexes(w) == workers[w].pc = "set_indexed" /\ workers'[w].pc = "set_final"

ClaimedByTags(rules, a, c) ==
    LET tags == ordered_tags(a.explicit_tags \o c.auto_tag_candidates, {}, <<>>)
        raw == rules.tag_category_rules
        tag_rules == IF raw.t = "list" THEN SelectSeq(raw.v, LAMBDA r : r.t = "dict") ELSE <<>>
    IN  IF tags = <<>> \/ tag_rules = <<>> THEN <<>>
        ELSE resolve_allowed_category(
               a.allowed,
               strip(by_tag_rules({normalize_tag_key(tags[i]) : i \in 1..Len(tags)}, tag_rules)))

ClaimedResolution(ctx, rules) ==
    With(rule_setup(ctx, rules), LAMBDA a :
    With(keyword_rules(ctx, a), LAMBDA b :
    With(date_and_candidates(ctx, a, b), LAMBDA c :
      IF a.allowed_explicit # <<>> THEN [source |-> "a", category |-> a.allowed_explicit]
      ELSE IF first_match(ctx, a.category_rules, 1, 1).kind = "match"
      THEN [source |-> "b", category |-> b.category]
      ELSE IF ClaimedByTags(rules, a, c) # <<>>
      THEN [source |-> "c", category |-> ClaimedByTags(rules, a, c)]
      ELSE [source |-> "d", category |-> a.default_category])))

\* C35: a call of apply_rules that returns has the category of the first
\* applicable source in the order (a) to (d), and CLASSIFY_FAIL is among
\* its review_reasons exactly when the source is (d), default_category.
C35_ResolutionOrder ==
    (ruleCall.stage = "done" /\ ~ruleCall.out.raised) =>
        LET claimed == ClaimedResolution(ruleCall.ctx, ruleCall.rules) IN
        /\ ruleCall.out.category = claimed.category
        /\ "CLASSIFY_FAIL" \in Range(ruleCall.out.review_reasons) <=> claimed.source = "d"

\* the categories a list of rules names
NamedCategories(list) ==
    IF list.t # "list" THEN {}
    ELSE {strip(list.v[i].category.v) :
            i \in {k \in 1..Len(list.v) : /\ list.v[k].t = "dict"
                                          /\ list.v[k].category.t = "str"}} \ {<<>>}

\* the allowed category set of a ruleset: the categories of category_rules
\* and tag_category_rules and default_category (the built-in default when
\* the ruleset has none)
AllowedSet(rules) ==
    NamedCategories(rules.category_rules) \cup NamedCategories(rules.tag_category_rules)
    \cup {IF rules.default_category.t = "str" /\ strip(rules.default_category.v) # <<>>
          THEN strip(rules.default_category.v) ELSE Kita}

\* C36: the category of every call of apply_rules that returns is a member
\* of the allowed category set of its ruleset.
C36_CategoryAllowed ==
    (ruleCall.stage = "done" /\ ~ruleCall.out.raised) =>
        ruleCall.out.category \in AllowedSet(ruleCall.rules)

\* calls on each path: an explicit category outside the ruleset with a
\* keyword match
C36_Witness ==
    /\ ruleCall.stage = "done"
    /\ ~ruleCall.out.raised
    /\ ruleCall.ctx.explicit_category = xx
    /\ ruleCall.out.category = cc
    /\ "CATEGORY_OUT_OF_RULESET" \in Range(ruleCall.out.review_reasons)

\* a sequence without a repeated element
NoDuplicates(seq) == \A i, k \in 1..Len(seq) : seq[i] = seq[k] => i = k

\* C37: review_reasons holds no reason code twice, in the output of every
\* call of apply_rules that returns.
C37_ReasonsUnique ==
    (ruleCall.stage = "done" /\ ~ruleCall.out.raised) =>
        NoDuplicates(ruleCall.out.review_reasons)

\* a processing task of job j is queued (due or scheduled with an eta) or
\* a worker is running it
HasTask(j) ==
    \/ \E t \in BagToSet(queue) : t.job = j
    \/ \E w \in Workers : workers[w].pc # "idle" /\ workers[w].job = j

\* C38: a committed IngestJob in RECEIVED whose upload handler has ended has
\* a processing task queued, running or scheduled for retry, also after a
\* crash of the handler or a rejected enqueue.
C38_ReceivedHasTask ==
    \A j \in JobIds :
        (jobs[j].exists /\ jobs[j].state = "RECEIVED" /\ reqs[j].pc = "done") => HasTask(j)

\* C39: every IngestJob has attempt_count <= max_attempts, also after an
\* action-token retry, an admin requeue or a recover-upload with
\* reset_attempts = FALSE of a dead-lettered job.
C39_AttemptsWithinMax ==
    \A j \in JobIds : jobs[j].exists => jobs[j].attempt_count <= jobs[j].max_attempts

\* C40: a second backfill run with the same rule version and filter, with
\* no other change since the first run, updates no document and writes no
\* DocumentVersion.
C40_SecondRunUpdatesNothing ==
    backfill.runs = 2 => backfill.updated = 0 /\ backfill.written = {}

====
